---- MODULE Spec2Model ----
(***************************************************************************)
(* Verification model of rungalileo/sdk-examples.                          *)
(*                                                                         *)
(* Five parts of the repository are modelled:                              *)
(*   - python/agent-reliability-month/langgraph/part-3/orchestrator_agent  *)
(*     (MultiAgentOrchestrator: route_query, process_query, the            *)
(*     collaborative workflow), under SpecOrch;                            *)
(*   - python/rag/healthcare-support-portal (the patient, auth and rag     *)
(*     services over one relational store, with the fact store of the      *)
(*     policy service), under the specifications that start from           *)
(*     PatientInit, RagInit, BootstrapInit and EmptyDatabase;              *)
(*   - python/chatbot/sample-project-voice-chatbot/service                 *)
(*     (log_conversation_turn), under SpecVoice;                           *)
(*   - python/agent/pydantic-ai-support-agent (the tools of the support    *)
(*     agent), under SpecSupport;                                          *)
(*   - two scripts: wait_for_services of the portal's seed_data.py, under  *)
(*     SpecWait, and python/code-insights-dev/deep_lookup.py               *)
(*     (function_fingerprint), under SpecFingerprint.                      *)
(* Every specification constrains all variables; the variables of the      *)
(* part a specification does not exercise stay at their idle value.        *)
(***************************************************************************)
EXTENDS Integers, Sequences, FiniteSets, TLC

VARIABLES
    \* ---- orchestrator_agent.py ----
    sent,                 \* what the routing LLM produced: the decision it meant and the form of its text
    content,              \* response.content of the routing LLM, as a token sequence
    pc,                   \* position of process_query
    routing_decision,     \* the value route_query returned
    results,              \* execute_collaborative_workflow: results (agent name -> latest result)
    conversation_history, \* execute_collaborative_workflow: results appended after the user query
    idx,                  \* position of the for loop over execution_order
    calls,                \* every external call made so far, in order (agents and LLM)
    output,               \* what process_query returned
    \* ---- healthcare-support-portal: the relational store (common/models.py) ----
    users,                \* users table: row id -> row
    patients,             \* patients table: row id -> row
    documents,            \* documents table: set of rows
    embeddings,           \* embeddings table: set of rows
    next_id,              \* the id sequences of documents and embeddings
    \* ---- the policy service (Oso Cloud) ----
    facts,                \* has_role facts held by the policy service
    oso_failed,           \* a call that writes facts has failed at some point
    \* ---- the HTTP exchange ----
    resp,                 \* the last request with the response it got
    \* ---- sample-project-voice-chatbot/service/main.py ----
    loggers,              \* session_manager._loggers: the sessions that have a logger
    active_traces,        \* session_manager._active_traces
    turn,                 \* the request log_conversation_turn is handling, with its locals
    galileo_calls,        \* the calls the turn has made to Galileo, in order
    turn_response,        \* what log_conversation_turn answered
    \* ---- pydantic-ai-support-agent/src/main.py ----
    ORDERS_DB,            \* order id -> order
    TICKETS_DB,           \* ticket id -> ticket
    TICKET_COUNTER,       \* the number of the last ticket
    tool_result,          \* the last tool call with what it returned
    \* ---- common/seed_data.py: wait_for_services ----
    wait,                 \* position of wait_for_services: service, attempt, what it returned
    \* ---- code-insights-dev/deep_lookup.py ----
    fn_globals,           \* function -> the global names its bytecode loads, in order
    frames,               \* the call stack of _get_deep_hash, innermost frame last
    cache,                \* the cache of get_hash: the functions whose hash is stored
    hash_result           \* how get_hash ended

orchVars == <<sent, content, pc, routing_decision, results, conversation_history, idx, calls, output>>

portalVars == <<users, patients, documents, embeddings, next_id, facts, oso_failed, resp>>

voiceVars == <<loggers, active_traces, turn, galileo_calls, turn_response>>

agentVars == <<ORDERS_DB, TICKETS_DB, TICKET_COUNTER, tool_result>>

scriptVars == <<wait, fn_globals, frames, cache, hash_result>>

vars == <<orchVars, portalVars, voiceVars, agentVars, scriptVars>>

\* what a step of the portal, and a step of the orchestrator, leaves alone
outsidePortal == <<orchVars, voiceVars, agentVars, scriptVars>>
outsideOrch == <<portalVars, voiceVars, agentVars, scriptVars>>

(***************************************************************************)
(* Bounds                                                                  *)
(***************************************************************************)
MaxOrder == 2     \* longest execution_order the routing LLM emits
MaxPatients == 2  \* patient rows ever created
MaxMrn == 3       \* distinct medical record numbers in requests
FactsPatients == 1 \* patient rows created where the facts are followed
MaxDocs == 2      \* document rows ever created
MaxEmbeddings == 4 \* embedding rows ever stored
MaxUsers == 6     \* user rows ever created, the five of the staff included
SyncDocs == 1     \* document rows created where fact synchronization is called
MaxText == 4      \* tokens of a text handed to chunk_text
MaxChunk == 3     \* largest chunk_size chunk_text is called with

(***************************************************************************)
(* JSON values (what json.loads returns), tagged by their Python type      *)
(***************************************************************************)
JStr(s) == [t |-> "str", s |-> s]
JBool(b) == [t |-> "bool", b |-> b]
JList(xs) == [t |-> "list", items |-> xs]
JObj(m) == [t |-> "dict", m |-> m]
JNone == [t |-> "none"]

\* Python truthiness of a parsed value (bool(x))
Truthy(v) ==
    CASE v.t = "bool" -> v.b
      [] v.t = "str" -> v.s # ""
      [] v.t = "list" -> Len(v.items) > 0
      [] v.t = "dict" -> DOMAIN v.m # {}
      [] OTHER -> FALSE

HasKey(v, k) == v.t = "dict" /\ k \in DOMAIN v.m

(***************************************************************************)
(* The text of the routing LLM's answer                                    *)
(***************************************************************************)
\* the agents the orchestrator holds (self.agents)
Agents == {"supply_chain", "financial"}
\* agent names the routing LLM may write: the two it was told of, and one it was not
Names == Agents \cup {"marketing"}
KeyNames == {"primary_agent", "secondary_agents", "requires_collaboration", "execution_order"}
\* tokens that are JSON string literals
StrTokens == Names \cup KeyNames \cup {"yes"}

SeqsUpTo(S, n) == UNION {[1..k -> S] : k \in 0..n}

\* a, b, c  ->  a , b , c
RECURSIVE JoinComma(_)
JoinComma(parts) ==
    IF Len(parts) = 0 THEN <<>>
    ELSE IF Len(parts) = 1 THEN parts[1]
    ELSE parts[1] \o <<",">> \o JoinComma(Tail(parts))

ListTokens(names) == <<"[">> \o JoinComma([i \in 1..Len(names) |-> <<names[i]>>]) \o <<"]">>

\* The decisions the LLM may mean: each key present or absent ("absent"), agent
\* names inside and outside the fixed set.
Meant ==
    [primary : Names \cup {"absent"},
     requires : {"true", "false", "yes", "absent"},
     hasOrder : BOOLEAN,
     order : SeqsUpTo(Names, MaxOrder),
     hasSecondary : BOOLEAN]

\* The forms its text may take: the JSON object alone, the object cut short, the
\* object after a sentence of prose, the object followed by more text, no text.
Forms == {"json", "truncated", "prose", "trailing", "empty"}

ObjectTokens(d) ==
    LET p1 == IF d.primary = "absent" THEN <<>> ELSE << <<"primary_agent", ":", d.primary>> >>
        p2 == IF d.hasSecondary THEN << <<"secondary_agents", ":", "[", "]">> >> ELSE <<>>
        p3 == IF d.requires = "absent" THEN <<>>
              ELSE << <<"requires_collaboration", ":", d.requires>> >>
        p4 == IF d.hasOrder THEN << <<"execution_order", ":">> \o ListTokens(d.order) >> ELSE <<>>
    IN  <<"{">> \o JoinComma(p1 \o p2 \o p3 \o p4) \o <<"}">>

ContentOf(s) ==
    LET obj == ObjectTokens(s.d)
    IN  CASE s.form = "json" -> obj
          [] s.form = "truncated" -> SubSeq(obj, 1, Len(obj) - 1)
          [] s.form = "prose" -> <<"Here", "is", "the", "routing">> \o obj
          [] s.form = "trailing" -> obj \o <<"Hope", "this", "helps">>
          [] OTHER -> <<>>

\* The value a well-formed text denotes, written down from the decision the LLM meant
ValueOf(d) ==
    LET ks == (IF d.primary = "absent" THEN {} ELSE {"primary_agent"})
              \cup (IF d.hasSecondary THEN {"secondary_agents"} ELSE {})
              \cup (IF d.requires = "absent" THEN {} ELSE {"requires_collaboration"})
              \cup (IF d.hasOrder THEN {"execution_order"} ELSE {})
    IN  JObj([k \in ks |->
            CASE k = "primary_agent" -> JStr(d.primary)
              [] k = "secondary_agents" -> JList(<<>>)
              [] k = "requires_collaboration" ->
                    IF d.requires = "yes" THEN JStr("yes") ELSE JBool(d.requires = "true")
              [] OTHER -> JList([i \in 1..Len(d.order) |-> JStr(d.order[i])])])

(***************************************************************************)
(* json.loads over a token sequence: recursive descent                     *)
(***************************************************************************)
ParseFail == [ok |-> FALSE, val |-> JNone, pos |-> 0]
ParseOk(v, p) == [ok |-> TRUE, val |-> v, pos |-> p]

RECURSIVE ParseValue(_, _), ParseItems(_, _, _), ParseMembers(_, _, _)
ParseValue(toks, i) ==
    IF i > Len(toks) THEN ParseFail
    ELSE LET tk == toks[i]
         IN  CASE tk \in StrTokens -> ParseOk(JStr(tk), i + 1)
               [] tk = "true" -> ParseOk(JBool(TRUE), i + 1)
               [] tk = "false" -> ParseOk(JBool(FALSE), i + 1)
               [] tk = "[" ->
                     IF i + 1 <= Len(toks) /\ toks[i + 1] = "]"
                     THEN ParseOk(JList(<<>>), i + 2)
                     ELSE ParseItems(toks, i + 1, <<>>)
               [] tk = "{" ->
                     IF i + 1 <= Len(toks) /\ toks[i + 1] = "}"
                     THEN ParseOk(JObj(<<>>), i + 2)
                     ELSE ParseMembers(toks, i + 1, <<>>)
               [] OTHER -> ParseFail

ParseItems(toks, i, acc) ==
    LET r == ParseValue(toks, i)
    IN  IF ~r.ok \/ r.pos > Len(toks) THEN ParseFail
        ELSE IF toks[r.pos] = "," THEN ParseItems(toks, r.pos + 1, Append(acc, r.val))
        ELSE IF toks[r.pos] = "]" THEN ParseOk(JList(Append(acc, r.val)), r.pos + 1)
        ELSE ParseFail

\* a later duplicate of a key replaces the earlier one, as in a Python dict
ParseMembers(toks, i, m) ==
    IF i + 1 > Len(toks) \/ toks[i] \notin StrTokens \/ toks[i + 1] # ":" THEN ParseFail
    ELSE LET r == ParseValue(toks, i + 2)
             m2 == [k \in DOMAIN m \cup {toks[i]} |-> IF k = toks[i] THEN r.val ELSE m[k]]
         IN  IF ~r.ok \/ r.pos > Len(toks) THEN ParseFail
             ELSE IF toks[r.pos] = "," THEN ParseMembers(toks, r.pos + 1, m2)
             ELSE IF toks[r.pos] = "}" THEN ParseOk(JObj(m2), r.pos + 1)
             ELSE ParseFail

\* json.loads raises unless the whole text is one value
JsonLoads(toks) ==
    LET r == ParseValue(toks, 1)
    IN  IF r.ok /\ r.pos = Len(toks) + 1 THEN [ok |-> TRUE, val |-> r.val]
        ELSE [ok |-> FALSE, val |-> JNone]

(***************************************************************************)
(* healthcare-support-portal: rows, facts, responses                       *)
(***************************************************************************)
Depts == {"cardiology", "oncology"}
NoDoctor == 0     \* assigned_doctor_id is NULL

UserRow(username, role, dept) ==
    [username |-> username, role |-> role, department |-> dept, is_active |-> TRUE]

\* The staff the services run with: an administrator, and a doctor and a
\* nurse in each of two departments (ids 1..5).
Staff ==
    <<UserRow("admin_wilson", "admin", "administration"),
      UserRow("dr_smith", "doctor", "cardiology"),
      UserRow("dr_jones", "doctor", "oncology"),
      UserRow("nurse_johnson", "nurse", "cardiology"),
      UserRow("nurse_lee", "nurse", "oncology")>>

Fact(u, role, rtype, rid) == [user |-> u, role |-> role, rtype |-> rtype, rid |-> rid]

NoResp == [op |-> "none", status |-> 0, detail |-> "", id |-> 0, mrn |-> 0, authz |-> "n/a"]
Resp(op, status, detail, id, mrn, authz) ==
    [op |-> op, status |-> status, detail |-> detail, id |-> id, mrn |-> mrn, authz |-> authz]

\* what oso.authorize does: returns True, returns False, or raises (service unreachable)
AuthzAnswers == {"allow", "deny", "error"}

PortalIdle ==
    /\ users = <<>>
    /\ patients = <<>>
    /\ documents = {}
    /\ embeddings = {}
    /\ next_id = [document |-> 1, embedding |-> 1]
    /\ facts = {}
    /\ oso_failed = FALSE
    /\ resp = NoResp

(***************************************************************************)
(* common/oso_sync.py: the facts each function writes                      *)
(***************************************************************************)
ActiveWhere(us, role, dept) ==
    {u \in DOMAIN us : us[u].is_active /\ us[u].role = role /\ us[u].department = dept}
ActiveAdmins(us) == {u \in DOMAIN us : us[u].is_active /\ us[u].role = "admin"}

\* sync_patient_access: the batch of inserts
sync_patient_access(pid, row, us) ==
    (IF row.assigned_doctor_id # NoDoctor
     THEN {Fact(row.assigned_doctor_id, "assigned_doctor", "Patient", pid)} ELSE {})
    \cup (IF row.department # ""
          THEN {Fact(n, "department_nurse", "Patient", pid) :
                    n \in ActiveWhere(us, "nurse", row.department)}
          ELSE {})
    \cup {Fact(a, "admin", "Patient", pid) : a \in ActiveAdmins(us)}

\* remove_patient_access: tx.delete(("has_role", None, None, patient_value))
remove_patient_access(fs, pid) == {f \in fs : ~(f.rtype = "Patient" /\ f.rid = pid)}

(***************************************************************************)
(* patient_service/routers/patients.py                                     *)
(***************************************************************************)
PatientRow(mrn, dept, doctor) ==
    [medical_record_number |-> mrn, department |-> dept,
     assigned_doctor_id |-> doctor, is_active |-> TRUE]

\* create_patient lines 84-86: a row with this medical record number
mrn_exists(ps, mrn) == \E q \in DOMAIN ps : ps[q].medical_record_number = mrn

\* (mutant) the conflict check looks at active patients only
mrn_conflict_active_only(ps, pid, mrn) ==
    /\ mrn # ps[pid].medical_record_number
    /\ \E q \in DOMAIN ps :
          q # pid /\ ps[q].is_active /\ ps[q].medical_record_number = mrn

\* update_patient lines 173-181: another row with this medical record number
mrn_conflict(ps, pid, mrn) ==
    /\ mrn # ps[pid].medical_record_number
    /\ \E q \in DOMAIN ps : q # pid /\ ps[q].medical_record_number = mrn

\* models.py line 38: unique=True on medical_record_number (checked at commit)
UniqueIndexOk(ps) ==
    \A p, q \in DOMAIN ps : p # q => ps[p].medical_record_number # ps[q].medical_record_number

PatientInit ==
    /\ users = Staff
    /\ patients = <<>>
    /\ documents = {}
    /\ embeddings = {}
    /\ next_id = [document |-> 1, embedding |-> 1]
    /\ facts = {}
    /\ oso_failed = FALSE
    /\ resp = NoResp

\* (mutant) every authenticated role may create patients
any_role_creates(role) == TRUE

\* create_patient's role check: current_user.role in ["doctor", "admin"]
creator_role_ok(role) == role \in {"doctor", "admin"}

create_patient(cap, caller, mrn, dept, doctor, dob_ok, oso_up) ==
    LET row == PatientRow(mrn, dept, doctor)
        pid == Len(patients) + 1
        reject(status, detail) ==
            /\ resp' = Resp("create_patient", status, detail, 0, mrn, "n/a")
            /\ UNCHANGED <<patients, facts, oso_failed>>
    IN  /\ Len(patients) < cap \/ mrn_exists(patients, mrn)
        /\ IF mrn_exists(patients, mrn) THEN reject(400, "mrn_exists")
           ELSE IF ~dob_ok THEN reject(400, "bad_date")
           ELSE IF ~creator_role_ok(users[caller].role) THEN reject(403, "role")
           ELSE IF doctor # NoDoctor
                   /\ ~(doctor \in DOMAIN users /\ users[doctor].role = "doctor")
                THEN reject(400, "bad_doctor")
           ELSE IF ~UniqueIndexOk(Append(patients, row)) THEN reject(500, "integrity")
           ELSE /\ patients' = Append(patients, row)
                /\ facts' = IF oso_up THEN facts \cup sync_patient_access(pid, row, users)
                            ELSE facts
                /\ oso_failed' = (oso_failed \/ ~oso_up)
                /\ resp' = Resp("create_patient", 200, "", pid, mrn, "n/a")
        /\ UNCHANGED <<users, documents, embeddings, next_id>>
        /\ UNCHANGED outsidePortal

update_patient(pid, mrn, dept, doctor, dob_ok, authz, oso_up) ==
    LET reject(status, detail) ==
            /\ resp' = Resp("update_patient", status, detail, pid, mrn, authz)
            /\ UNCHANGED <<patients, facts, oso_failed>>
    IN  /\ IF pid \notin DOMAIN patients
           THEN /\ resp' = Resp("update_patient", 404, "", pid, mrn, "n/a")
                /\ UNCHANGED <<patients, facts, oso_failed>>
           ELSE IF authz = "error" THEN reject(500, "oso")
           ELSE IF authz = "deny" THEN reject(403, "oso")
           ELSE IF mrn_conflict(patients, pid, mrn) THEN reject(400, "mrn_exists")
           ELSE IF ~dob_ok THEN reject(400, "bad_date")
           ELSE LET old == patients[pid]
                    new == [old EXCEPT !.medical_record_number = mrn, !.department = dept,
                                       !.assigned_doctor_id = doctor]
                    changed == old.assigned_doctor_id # doctor \/ old.department # dept
                IN  IF ~UniqueIndexOk([patients EXCEPT ![pid] = new])
                    THEN reject(500, "integrity")
                    ELSE /\ patients' = [patients EXCEPT ![pid] = new]
                         /\ facts' = IF changed /\ oso_up
                                     THEN facts \cup sync_patient_access(pid, new, users)
                                     ELSE facts
                         /\ oso_failed' = (oso_failed \/ (changed /\ ~oso_up))
                         /\ resp' = Resp("update_patient", 200, "", pid, mrn, authz)
        /\ UNCHANGED <<users, documents, embeddings, next_id>>
        /\ UNCHANGED outsidePortal

\* patients.py get_patient: the row is looked up by id alone
get_patient(caller, pid, authz) ==
    /\ resp' = IF pid \notin DOMAIN patients
               THEN Resp("get_patient", 404, "", pid, 0, "n/a")
               ELSE IF authz = "error" THEN Resp("get_patient", 500, "oso", pid, 0, authz)
               ELSE IF authz = "deny" THEN Resp("get_patient", 403, "oso", pid, 0, authz)
               ELSE Resp("get_patient", 200, "", pid,
                         patients[pid].medical_record_number, authz)
    /\ UNCHANGED <<users, patients, documents, embeddings, next_id, facts, oso_failed>>
    /\ UNCHANGED outsidePortal

\* (mutant) delete_patient also takes the patient from its doctor
delete_patient_unassigning(pid, authz, oso_up) ==
    /\ IF pid \notin DOMAIN patients
       THEN /\ resp' = Resp("delete_patient", 404, "", pid, 0, "n/a")
            /\ UNCHANGED <<patients, facts, oso_failed>>
       ELSE IF authz # "allow"
       THEN /\ resp' = Resp("delete_patient", IF authz = "error" THEN 500 ELSE 403, "oso",
                            pid, 0, authz)
            /\ UNCHANGED <<patients, facts, oso_failed>>
       ELSE /\ patients' = [patients EXCEPT ![pid].is_active = FALSE,
                                            ![pid].assigned_doctor_id = NoDoctor]
            /\ facts' = IF oso_up THEN remove_patient_access(facts, pid) ELSE facts
            /\ oso_failed' = (oso_failed \/ ~oso_up)
            /\ resp' = Resp("delete_patient", 200, "", pid, 0, authz)
    /\ UNCHANGED <<users, documents, embeddings, next_id>>
    /\ UNCHANGED outsidePortal

delete_patient(pid, authz, oso_up) ==
    /\ IF pid \notin DOMAIN patients
       THEN /\ resp' = Resp("delete_patient", 404, "", pid, 0, "n/a")
            /\ UNCHANGED <<patients, facts, oso_failed>>
       ELSE IF authz # "allow"
       THEN /\ resp' = Resp("delete_patient", IF authz = "error" THEN 500 ELSE 403, "oso",
                            pid, 0, authz)
            /\ UNCHANGED <<patients, facts, oso_failed>>
       ELSE /\ patients' = [patients EXCEPT ![pid].is_active = FALSE]
            /\ facts' = IF oso_up THEN remove_patient_access(facts, pid) ELSE facts
            /\ oso_failed' = (oso_failed \/ ~oso_up)
            /\ resp' = Resp("delete_patient", 200, "", pid, 0, authz)
    /\ UNCHANGED <<users, documents, embeddings, next_id>>
    /\ UNCHANGED outsidePortal

Mrns == 1..MaxMrn

\* The requests a specification sends are drawn from the sets it names: the
\* callers, the request bodies, the answers of oso.authorize and whether the
\* policy service accepts fact writes.
CreatePatientOver(cap, callers, mrns, depts, doctors, dobs, ups) ==
    \E caller \in callers, mrn \in mrns, dept \in depts, doctor \in doctors,
       dob_ok \in dobs, oso_up \in ups :
        create_patient(cap, caller, mrn, dept, doctor, dob_ok, oso_up)

UpdatePatientOver(cap, mrns, depts, doctors, dobs, answers, ups) ==
    \E pid \in 1..cap, mrn \in mrns, dept \in depts, doctor \in doctors,
       dob_ok \in dobs, authz \in answers, oso_up \in ups :
        update_patient(pid, mrn, dept, doctor, dob_ok, authz, oso_up)

DeletePatientOver(cap, answers, ups) ==
    \E pid \in 1..cap, authz \in answers, oso_up \in ups :
        delete_patient(pid, authz, oso_up)

\* Patient service, medical record numbers: a doctor and a nurse call, with
\* every record number, for unassigned patients of one department.
MrnCreatePatient ==
    CreatePatientOver(MaxPatients, {2, 4}, Mrns, {"cardiology"}, {NoDoctor}, BOOLEAN, {TRUE})
MrnUpdatePatient ==
    UpdatePatientOver(MaxPatients, Mrns, {"cardiology"}, {NoDoctor}, BOOLEAN, AuthzAnswers, {TRUE})
MrnDeletePatient == DeletePatientOver(MaxPatients, AuthzAnswers, {TRUE})

\* Patient intake: doctors and the admin create patients; nurses send the
\* same requests, with every body: numbers that exist or not, dates that
\* parse or not, any department, any doctor assignment.
Clinicians == {u \in DOMAIN Staff : Staff[u].role \in {"doctor", "admin"}}
OtherStaff == DOMAIN Staff \ Clinicians
Assignees == {NoDoctor, 2, 4}

IntakeClinician ==
    CreatePatientOver(MaxPatients, Clinicians, Mrns, {"cardiology"}, {NoDoctor, 2}, {TRUE}, {TRUE})

IntakeOther ==
    CreatePatientOver(MaxPatients, OtherStaff, Mrns, Depts, Assignees, BOOLEAN, {TRUE})

IntakeNext ==
    \/ IntakeClinician
    \/ IntakeOther

MrnNext ==
    \/ MrnCreatePatient
    \/ MrnUpdatePatient
    \/ MrnDeletePatient

\* Patient service, facts: patients move between the two departments and the
\* two doctors; the policy service accepts every write.
FactsCreatePatient ==
    CreatePatientOver(FactsPatients, {2}, 1..FactsPatients, Depts, {NoDoctor, 2, 3}, {TRUE}, {TRUE})
FactsUpdatePatient ==
    UpdatePatientOver(FactsPatients, 1..FactsPatients, Depts, {NoDoctor, 2, 3}, {TRUE},
                      {"allow", "deny"}, {TRUE})
FactsDeletePatient == DeletePatientOver(FactsPatients, {"allow", "deny"}, {TRUE})

FactsNext ==
    \/ FactsCreatePatient
    \/ FactsUpdatePatient
    \/ FactsDeletePatient

(***************************************************************************)
(* rag_service: settings, rows, chunking, similarity                       *)
(***************************************************************************)
\* rag_service/config.py
chunk_size == 1000
chunk_overlap == 200
max_results == 5
\* similarity_threshold = 0.3; similarities are carried in hundredths
similarity_threshold == 30

\* regenerate_document_embeddings chunks with its own sizes
regenerate_chunk_size == 500
regenerate_chunk_overlap == 50

NoPatient == 0     \* Document.patient_id IS NULL
NoVector == 0      \* generate_embedding returned [] (the API call failed)
\* str() of a Document object: the default object repr, which is no id
ObjectRepr == 0

\* a document's content is carried by its number of tokens
DocumentRow(id, tokens, type, dept, sensitive, creator) ==
    [id |-> id, content |-> tokens, document_type |-> type, department |-> dept,
     is_sensitive |-> sensitive, created_by_id |-> creator, patient_id |-> NoPatient,
     title |-> ""]

EmbeddingRow(id, document_id, chunk_index, vector) ==
    [id |-> id, document_id |-> document_id, chunk_index |-> chunk_index,
     embedding_vector |-> vector]

Min(a, b) == IF a < b THEN a ELSE b

\* (mutant) the next chunk starts where the last one ended
next_start_at_end(end, overlap) == end

\* chunk_text line 41: start = end - chunk_overlap
next_start(end, overlap) == end - overlap

\* chunk_text: the loop from position start; a chunk is tokens[from .. to-1]
RECURSIVE ChunkFrom(_, _, _, _)
ChunkFrom(start, n, size, overlap) ==
    IF start >= n THEN <<>>
    ELSE LET end == start + size
             chunk == [from |-> start, to |-> Min(end, n)]
         IN  IF end >= n THEN <<chunk>>
             ELSE <<chunk>> \o ChunkFrom(next_start(end, overlap), n, size, overlap)

chunk_text(tokens, size, overlap) == ChunkFrom(0, tokens, size, overlap)

\* A text as the sequence of its tokens, of which only the kind matters: a
\* token with visible characters ("w"), or a token of whitespace alone (" ",
\* as cl100k_base produces before a number or for a line break)
TokenKinds == {"w", " "}

\* encoding.decode(chunk_tokens).strip(): the window without the whitespace
\* tokens at its two ends; nothing is left of a window of whitespace alone
decode_strip(text, chunk) ==
    LET visible == {i \in chunk.from .. chunk.to - 1 : text[i + 1] # " "}
    IN  IF visible = {} THEN [from |-> chunk.from, to |-> chunk.from]
        ELSE [from |-> CHOOSE i \in visible : \A j \in visible : i <= j,
              to |-> 1 + CHOOSE i \in visible : \A j \in visible : j <= i]

\* what chunk_text returns for a text: one stripped string per window
chunks_returned(text, size, overlap) ==
    LET windows == chunk_text(Len(text), size, overlap)
    IN  [i \in DOMAIN windows |-> decode_strip(text, windows[i])]

ChunkResp(text, size, overlap) ==
    [op |-> "chunk_text", text |-> text, chunk_size |-> size, chunk_overlap |-> overlap,
     windows |-> chunk_text(Len(text), size, overlap),
     chunks |-> chunks_returned(text, size, overlap)]

\* chunk_text is called on a text with sizes of the caller's choice
call_chunk_text(text, size, overlap) ==
    /\ resp' = ChunkResp(text, size, overlap)
    /\ UNCHANGED <<users, patients, documents, embeddings, next_id, facts, oso_failed>>
    /\ UNCHANGED outsidePortal

\* the directions an embedding vector can point in, and what
\* 1 - (a <=> b) gives for two of them, in hundredths
Vectors == 1..3
CosineSimilarity(a, b) == 100 - 40 * (IF a < b THEN b - a ELSE a - b)

\* what generate_embedding returns for the chunks of one document
EmbeddingsOf(chunks, choices) == [1..Len(chunks) -> choices]

\* the document_ids argument: None, or a list
NoneIds == [none |-> TRUE, ids |-> {}]
ListIds(S) == [none |-> FALSE, ids |-> S]
\* Python truth of the argument: a non-empty list
NonEmptyList(l) == ~l.none /\ l.ids # {}

\* Chunking: texts of up to MaxText tokens, visible or whitespace, are cut
\* with every chunk_size up to MaxChunk and every smaller chunk_overlap,
\* a negative one included.
Texts == UNION {[1..n -> TokenKinds] : n \in 0..MaxText}

ChunkText ==
    \E text \in Texts, size \in 1..MaxChunk :
        \E overlap \in -1..(size - 1) : call_chunk_text(text, size, overlap)

ChunkNext == ChunkText

(***************************************************************************)
(* common/oso_sync.py: document and embedding facts                        *)
(***************************************************************************)
ActiveIn(us, dept) == {u \in DOMAIN us : us[u].is_active /\ us[u].department = dept}

sync_document_access(d, us, ps) ==
    (IF d.created_by_id # 0 THEN {Fact(d.created_by_id, "owner", "Document", d.id)} ELSE {})
    \cup (IF d.patient_id # NoPatient /\ d.patient_id \in DOMAIN ps
             /\ ps[d.patient_id].assigned_doctor_id # NoDoctor
          THEN {Fact(ps[d.patient_id].assigned_doctor_id, "patient_doctor", "Document", d.id)}
          ELSE {})
    \cup (IF d.department # "" /\ ~d.is_sensitive
          THEN {Fact(u, "department_staff", "Document", d.id) : u \in ActiveIn(us, d.department)}
          ELSE {})
    \cup {Fact(a, "admin", "Document", d.id) : a \in ActiveAdmins(us)}

\* remove_document_access: tx.delete(("has_role", None, None, Value("Document", str(arg))))
remove_document_access(fs, key) == {f \in fs : ~(f.rtype = "Document" /\ f.rid = key)}

sync_embedding_access(eid, us) == {Fact(a, "admin", "Embedding", eid) : a \in ActiveAdmins(us)}

(***************************************************************************)
(* rag_service/utils/embeddings.py                                         *)
(***************************************************************************)
\* store_document_embeddings: the loop from chunk i on (chunk_index i - 1);
\* a chunk whose embedding is empty is skipped; eid is the next embedding id
RECURSIVE StoreChunks(_, _, _, _)
StoreChunks(document_id, vecs, i, eid) ==
    IF i > Len(vecs) THEN [rows |-> {}, next |-> eid]
    ELSE IF vecs[i] = NoVector THEN StoreChunks(document_id, vecs, i + 1, eid)
    ELSE LET rest == StoreChunks(document_id, vecs, i + 1, eid + 1)
         IN  [rows |-> {EmbeddingRow(eid, document_id, i - 1, vecs[i])} \cup rest.rows,
              next |-> rest.next]

store_document_embeddings(document_id, vecs, eid) == StoreChunks(document_id, vecs, 1, eid)

\* the facts store_document_embeddings writes for the rows it stored
EmbeddingFacts(rows, us) == UNION {sync_embedding_access(r.id, us) : r \in rows}

\* one row of the SELECT ... FROM embeddings e JOIN documents d
SearchRow(e, d, q) ==
    [embedding_id |-> e.id, document_id |-> e.document_id, chunk_index |-> e.chunk_index,
     document_type |-> d.document_type, department |-> d.department,
     is_sensitive |-> d.is_sensitive,
     similarity |-> CosineSimilarity(q, e.embedding_vector)]

\* ORDER BY similarity DESC LIMIT k: every order the database may give to ties
RECURSIVE TopRows(_, _)
TopRows(rows, k) ==
    IF k = 0 \/ rows = {} THEN {<<>>}
    ELSE LET best == {r \in rows : \A o \in rows : o.similarity <= r.similarity}
         IN  UNION {{<<r>> \o t : t \in TopRows(rows \ {r}, k - 1)} : r \in best}

\* (mutant) WHERE similarity >= :threshold
at_or_above_threshold(similarity, threshold) == similarity >= threshold

\* line 106: WHERE 1 - (e.embedding_vector <=> :query_vector) > :threshold
above_threshold(similarity, threshold) == similarity > threshold

\* similarity_search: the result lists it can return; the query fails when
\* the database is down and when LIMIT is negative
similarity_search(q, limit, threshold, document_ids, db_ok) ==
    IF q = NoVector THEN {<<>>}
    ELSE IF ~db_ok \/ limit < 0 THEN {<<>>}
    ELSE LET joined == {p \in embeddings \X documents :
                          /\ p[1].document_id = p[2].id
                          /\ above_threshold(CosineSimilarity(q, p[1].embedding_vector),
                                             threshold)
                          /\ (NonEmptyList(document_ids)
                                => p[1].document_id \in document_ids.ids)}
         IN  TopRows({SearchRow(p[1], p[2], q) : p \in joined}, limit)

(***************************************************************************)
(* rag_service/observability.py: the Galileo logging calls                 *)
(***************************************************************************)
\* Galileo is not enabled, or a span call of galileo_logger returns or raises
Galileo == {"disabled", "ok", "raises"}

\* galileo_logger.add_workflow_span / add_llm_span / add_retriever_span
add_span(galileo) == IF galileo = "raises" THEN "raised" ELSE "returned"

\* (mutant) the logging functions let the exception of the span call through
uncaught(outcome) == outcome

\* except Exception as e: logger.warning(...) / logger.error(...)
caught(outcome) == "returned"

log_galileo_event(galileo) ==
    IF galileo = "disabled" THEN "returned" ELSE caught(add_span(galileo))

log_llm_call(galileo) ==
    IF galileo = "disabled" THEN "returned" ELSE caught(add_span(galileo))

log_retriever_call(galileo) ==
    IF galileo = "disabled" THEN "returned" ELSE caught(add_span(galileo))

\* the try/except around the logging call in similarity_search (lines
\* 152-172) and in generate_ai_response (chat.py lines 381-398)
print_warning(outcome) == "returned"

\* a handler that calls log_galileo_event outside any try: an exception
\* leaves the handler and the client gets 500
after_logging(status, outcome) == IF outcome = "raised" THEN 500 ELSE status

\* similarity_search with its logging: an exception that reached the outer
\* except would turn the result into the empty list
similarity_search_logged(q, limit, threshold, document_ids, db_ok, galileo) ==
    IF print_warning(log_retriever_call(galileo)) = "raised" THEN {<<>>}
    ELSE similarity_search(q, limit, threshold, document_ids, db_ok)

\* generate_ai_response: the answer of the model, with the note when there
\* is no context, or the apology when the OpenAI call raised
generate_ai_response(openai_ok, has_context, galileo) ==
    IF ~openai_ok THEN "unable to generate a response"
    ELSE IF print_warning(log_llm_call(galileo)) = "raised"
    THEN "unable to generate a response"
    ELSE IF has_context THEN "answer" ELSE "answer with note"

(***************************************************************************)
(* rag_service/routers: requests and responses                             *)
(***************************************************************************)
\* what authorized(current_user, "read", Document) does: raises, or restricts
\* the query to the documents the policy lets the user read
PolicyError == [error |-> TRUE, ids |-> {}]
PolicyAllows(S) == [error |-> FALSE, ids |-> S]
PolicyAnswers == {PolicyError} \cup {PolicyAllows(S) : S \in SUBSET {d.id : d \in documents}}

NoRequest ==
    [policy |-> PolicyError, document_types |-> {}, department |-> "",
     patient_id |-> NoPatient, document_ids |-> NoneIds, query |-> NoVector, limit |-> 0]

NoRagResp ==
    [op |-> "none", status |-> 0, caller |-> 0, id |-> 0, authz |-> "n/a", body |-> FALSE,
     request |-> NoRequest, authorized_doc_ids |-> {}, searched |-> FALSE,
     results |-> <<>>, chunks_created |-> 0, success |-> FALSE, galileo |-> "disabled",
     openai_ok |-> TRUE, response |-> ""]

RagResp(op, status, caller, id, authz) ==
    [NoRagResp EXCEPT !.op = op, !.status = status, !.caller = caller, !.id = id,
                      !.authz = authz]

RagInit ==
    /\ users = Staff
    /\ patients = <<>>
    /\ documents = {}
    /\ embeddings = {}
    /\ next_id = [document |-> 1, embedding |-> 1]
    /\ facts = {}
    /\ oso_failed = FALSE
    /\ resp = NoRagResp

DocumentById(id) == {d \in documents : d.id = id}
EmbeddingsOfDocument(id) == {e \in embeddings : e.document_id = id}

(***************************************************************************)
(* rag_service/routers/documents.py                                        *)
(***************************************************************************)
get_document(caller, document_id, authz) ==
    LET found == DocumentById(document_id)
        answer(status, body) ==
            resp' = [RagResp("get_document", status, caller, document_id, authz)
                        EXCEPT !.body = body]
    IN  /\ IF found = {} THEN answer(404, FALSE)
           ELSE LET document == CHOOSE d \in found : TRUE
                IN  IF authz = "error"
                       /\ users[caller].role # "admin"
                       /\ users[caller].department # document.department
                    THEN answer(403, FALSE)
                    ELSE answer(200, TRUE)
        /\ UNCHANGED <<users, patients, documents, embeddings, next_id, facts, oso_failed>>
        /\ UNCHANGED outsidePortal

create_document(cap, caller, tokens, type, dept, sensitive, oso_up, galileo) ==
    LET document == DocumentRow(next_id.document, tokens, type, dept, sensitive, caller)
    IN  /\ next_id.document <= cap
        /\ documents' = documents \cup {document}
        /\ next_id' = [next_id EXCEPT !.document = @ + 1]
        /\ facts' = IF oso_up THEN facts \cup sync_document_access(document, users, patients)
                    ELSE facts
        /\ oso_failed' = (oso_failed \/ ~oso_up)
        /\ resp' = [RagResp("create_document",
                             after_logging(200, log_galileo_event(galileo)), caller,
                             document.id, "n/a") EXCEPT !.galileo = galileo]
        /\ UNCHANGED <<users, patients, embeddings>>
        /\ UNCHANGED outsidePortal

upload_document(cap, ecap, caller, tokens, type, dept, sensitive, choices, oso_up) ==
    LET document == DocumentRow(next_id.document, tokens,
                                IF type = "" THEN "unknown" ELSE type,
                                IF dept = "" THEN users[caller].department ELSE dept,
                                sensitive, caller)
        chunks == chunk_text(tokens, chunk_size, chunk_overlap)
    IN  /\ next_id.document <= cap
        /\ next_id.embedding + Len(chunks) <= ecap + 1
        /\ \E vecs \in EmbeddingsOf(chunks, choices) :
             LET stored == store_document_embeddings(document.id, vecs, next_id.embedding)
             IN  /\ documents' = documents \cup {document}
                 /\ embeddings' = embeddings \cup stored.rows
                 /\ next_id' = [document |-> next_id.document + 1, embedding |-> stored.next]
                 /\ facts' = IF oso_up
                             THEN facts \cup sync_document_access(document, users, patients)
                                        \cup EmbeddingFacts(stored.rows, users)
                             ELSE facts
        /\ oso_failed' = (oso_failed \/ ~oso_up)
        /\ resp' = [RagResp("upload_document", 200, caller, document.id, "n/a")
                       EXCEPT !.chunks_created = Len(chunks), !.success = TRUE]
        /\ UNCHANGED <<users, patients>>
        /\ UNCHANGED outsidePortal

regenerate_embeddings(ecap, caller, document_id, authz, choices, oso_up) ==
    LET found == DocumentById(document_id)
        reject(status) ==
            /\ resp' = RagResp("regenerate_embeddings", status, caller, document_id, authz)
            /\ UNCHANGED <<embeddings, next_id, facts, oso_failed>>
    IN  /\ IF found = {} THEN reject(404)
           ELSE IF authz = "error" THEN reject(403)
           ELSE LET document == CHOOSE d \in found : TRUE
                    chunks == chunk_text(document.content, regenerate_chunk_size,
                                         regenerate_chunk_overlap)
                    kept == embeddings \ EmbeddingsOfDocument(document_id)
                IN  /\ next_id.embedding + Len(chunks) <= ecap + 1
                    /\ \E vecs \in EmbeddingsOf(chunks, choices) :
                         LET stored == store_document_embeddings(document_id, vecs,
                                                                 next_id.embedding)
                         IN  /\ embeddings' = kept \cup stored.rows
                             /\ next_id' = [next_id EXCEPT !.embedding = stored.next]
                             /\ facts' = IF oso_up
                                         THEN facts \cup EmbeddingFacts(stored.rows, users)
                                         ELSE facts
                    /\ oso_failed' = (oso_failed \/ ~oso_up)
                    /\ resp' = [RagResp("regenerate_embeddings", 200, caller, document_id, authz)
                                   EXCEPT !.chunks_created = Len(chunks), !.success = TRUE]
        /\ UNCHANGED <<users, patients, documents>>
        /\ UNCHANGED outsidePortal

\* (mutant) the delete of a document row commits whatever refers to it
delete_commits_always(document_id) == TRUE

\* models.py line 78: embeddings.document_id is a NOT NULL foreign key, so the
\* commit of db.delete(document) fails while an embedding row refers to it
delete_commits(document_id) == EmbeddingsOfDocument(document_id) = {}

delete_document(caller, document_id, authz, oso_up) ==
    LET found == DocumentById(document_id)
        answer(status) ==
            resp' = RagResp("delete_document", status, caller, document_id, authz)
    IN  /\ IF found = {}
           THEN answer(404) /\ UNCHANGED <<documents, facts, oso_failed>>
           ELSE IF authz = "error"
           THEN answer(403) /\ UNCHANGED <<documents, facts, oso_failed>>
           ELSE /\ facts' = IF oso_up THEN remove_document_access(facts, ObjectRepr)
                            ELSE facts
                /\ oso_failed' = (oso_failed \/ ~oso_up)
                /\ IF delete_commits(document_id)
                   THEN answer(200) /\ documents' = documents \ found
                   ELSE answer(500) /\ UNCHANGED documents
        /\ UNCHANGED <<users, patients, embeddings, next_id>>
        /\ UNCHANGED outsidePortal

(***************************************************************************)
(* rag_service/routers/chat.py                                             *)
(***************************************************************************)
\* the query after the try/except: policy-filtered, or the role/department
\* fallback when authorized() raised
AuthorizedQuery(caller, policy) ==
    IF policy.error
    THEN IF users[caller].role # "admin"
         THEN {d \in documents : d.department = users[caller].department}
         ELSE documents
    ELSE {d \in documents : d.id \in policy.ids}

\* (mutant) the handlers search whatever the allowlist holds
search_runs_always(authorized_doc_ids) == TRUE

\* search_documents line 110, ask_question line 214: no search without ids
search_runs(authorized_doc_ids) == authorized_doc_ids # {}

\* request.limit or settings.max_results
LimitOr(limit) == IF limit = 0 THEN max_results ELSE limit

\* the part the two handlers share: search the allowlist, record the answer;
\* search_documents logs its event after a search, ask_question generates
\* the response and logs its event in every case
SearchAllowlist(op, caller, request, authorized_docs, db_ok, openai_ok, galileo) ==
    LET authorized_doc_ids == {d.id : d \in authorized_docs}
        answer(searched, rows) ==
            resp' = [RagResp(op,
                             IF op = "ask_question" \/ searched
                             THEN after_logging(200, log_galileo_event(galileo)) ELSE 200,
                             caller, 0, "n/a")
                        EXCEPT !.request = request,
                               !.authorized_doc_ids = authorized_doc_ids,
                               !.searched = searched, !.results = rows,
                               !.galileo = galileo, !.openai_ok = openai_ok,
                               !.response = IF op = "ask_question"
                                            THEN generate_ai_response(openai_ok, rows # <<>>,
                                                                      galileo)
                                            ELSE ""]
    IN  /\ IF search_runs(authorized_doc_ids)
           THEN \E rows \in similarity_search_logged(request.query, LimitOr(request.limit),
                                                        similarity_threshold,
                                                        ListIds(authorized_doc_ids), db_ok,
                                                        galileo) :
                    answer(TRUE, rows)
           ELSE answer(FALSE, <<>>)
        /\ UNCHANGED <<users, patients, documents, embeddings, next_id, facts, oso_failed>>
        /\ UNCHANGED outsidePortal

search_documents(caller, policy, document_types, department, limit, q, db_ok, galileo) ==
    LET request == [NoRequest EXCEPT !.policy = policy, !.document_types = document_types,
                                     !.department = department, !.query = q,
                                     !.limit = limit]
        authorized_docs ==
            {d \in AuthorizedQuery(caller, policy) :
                /\ document_types # {} => d.document_type \in document_types
                /\ department # "" => d.department = department}
    IN  SearchAllowlist("search_documents", caller, request, authorized_docs, db_ok, TRUE,
                        galileo)

ask_question(caller, policy, context_patient_id, context_department, limit, q, db_ok, openai_ok, galileo) ==
    LET request == [NoRequest EXCEPT !.policy = policy, !.patient_id = context_patient_id,
                                     !.department = context_department, !.query = q,
                                     !.limit = limit]
        authorized_docs ==
            {d \in AuthorizedQuery(caller, policy) :
                /\ context_patient_id # NoPatient => d.patient_id = context_patient_id
                /\ context_department # "" => d.department = context_department}
    IN  SearchAllowlist("ask_question", caller, request, authorized_docs, db_ok, openai_ok,
                        galileo)

\* similarity_search called with an allowlist of its caller's choosing
SimilaritySearchCall(q, limit, document_ids, db_ok) ==
    /\ \E rows \in similarity_search(q, limit, similarity_threshold, document_ids, db_ok) :
         resp' = [RagResp("similarity_search", 200, 0, 0, "n/a")
                     EXCEPT !.request = [NoRequest EXCEPT !.document_ids = document_ids,
                                                          !.query = q, !.limit = limit],
                            !.searched = TRUE, !.results = rows]
    /\ UNCHANGED <<users, patients, documents, embeddings, next_id, facts, oso_failed>>
    /\ UNCHANGED outsidePortal

\* similarity_search called directly: what it was given and what it returned
SimilaritySearchWith(q, limit, threshold, db_ok, galileo) ==
    /\ \E rows \in similarity_search_logged(q, limit, threshold, NoneIds, db_ok, galileo) :
         resp' = [op |-> "similarity_search", query_embedding |-> q, limit |-> limit,
                  similarity_threshold |-> threshold, db_ok |-> db_ok, results |-> rows,
                  galileo |-> galileo]
    /\ UNCHANGED <<users, patients, documents, embeddings, next_id, facts, oso_failed>>
    /\ UNCHANGED outsidePortal

(***************************************************************************)
(* rag service: the requests each specification sends                      *)
(***************************************************************************)
DocIds == 1..MaxDocs

\* Retrieval: a doctor uploads one-chunk documents into either department;
\* the admin and the cardiology nurse read and search them.
Readers == {1, 4}
Queries == {NoVector, 1}

SearchUpload ==
    \E dept \in Depts :
        upload_document(MaxDocs, MaxEmbeddings, 2, 900, "policy", dept, FALSE, {1, 3}, TRUE)

SearchGetDocument ==
    \E caller \in Readers, document_id \in DocIds, authz \in AuthzAnswers :
        get_document(caller, document_id, authz)

SearchDocuments ==
    \E caller \in Readers, policy \in PolicyAnswers, department \in {"", "cardiology"},
       q \in Queries :
        search_documents(caller, policy, {}, department, 0, q, TRUE, "disabled")

SearchAsk ==
    \E caller \in Readers, policy \in PolicyAnswers, context_patient_id \in {NoPatient, 1},
       q \in Queries :
        ask_question(caller, policy, context_patient_id, "", 0, q, TRUE, TRUE, "disabled")

SearchSimilarity ==
    \E q \in Queries, document_ids \in {NoneIds} \cup {ListIds(S) : S \in SUBSET DocIds} :
        SimilaritySearchCall(q, max_results, document_ids, TRUE)

SearchNext ==
    \/ SearchUpload
    \/ SearchGetDocument
    \/ SearchDocuments
    \/ SearchAsk
    \/ SearchSimilarity

\* Document life cycle: a doctor creates, uploads, regenerates and deletes
\* documents of up to two chunks; the embedding API fails for some chunks.
DocsCreate ==
    create_document(MaxDocs, 2, 900, "policy", "cardiology", FALSE, TRUE, "disabled")

DocsUpload ==
    \E tokens \in {0, 900} :
        upload_document(MaxDocs, MaxEmbeddings, 2, tokens, "", "", FALSE, {NoVector, 1}, TRUE)

DocsRegenerate ==
    \E document_id \in DocIds, authz \in AuthzAnswers :
        regenerate_embeddings(MaxEmbeddings, 2, document_id, authz, {NoVector, 1}, TRUE)

DocsDelete ==
    \E document_id \in DocIds, authz \in AuthzAnswers :
        delete_document(2, document_id, authz, TRUE)

DocsNext ==
    \/ DocsCreate
    \/ DocsUpload
    \/ DocsRegenerate
    \/ DocsDelete

\* Ranking: a doctor uploads documents of two chunks whose embeddings point
\* in any direction; searches ask for fewer rows than qualify, with a
\* threshold that some row's similarity equals, and sometimes fail.
Limits == {-1, 0, 1, 2}
Thresholds == {20, 60}

RankUpload ==
    upload_document(MaxDocs, MaxEmbeddings, 2, 1700, "policy", "cardiology", FALSE, Vectors,
                    TRUE)

RankSearch ==
    \E q \in {NoVector, 1, 2}, limit \in Limits, threshold \in Thresholds, db_ok \in BOOLEAN :
        SimilaritySearchWith(q, limit, threshold, db_ok, "disabled")

RankNext ==
    \/ RankUpload
    \/ RankSearch

\* Observability: documents are created, uploaded, searched and asked about
\* while Galileo is disabled, works, or fails at every call.
ObserveCreate ==
    \E galileo \in Galileo :
        create_document(MaxDocs, 2, 900, "policy", "cardiology", FALSE, TRUE, galileo)

ObserveUpload ==
    upload_document(MaxDocs, MaxEmbeddings, 2, 900, "policy", "cardiology", FALSE, {1, 2}, TRUE)

ObserveSimilarity ==
    \E q \in Queries, db_ok \in BOOLEAN, galileo \in Galileo :
        SimilaritySearchWith(q, max_results, similarity_threshold, db_ok, galileo)

ObserveSearch ==
    \E policy \in {PolicyError, PolicyAllows({})}, q \in Queries, galileo \in Galileo :
        search_documents(4, policy, {}, "", 0, q, TRUE, galileo)

ObserveAsk ==
    \E policy \in {PolicyError, PolicyAllows({})}, q \in Queries, openai_ok \in BOOLEAN,
       galileo \in Galileo :
        ask_question(4, policy, NoPatient, "", 0, q, TRUE, openai_ok, galileo)

ObserveNext ==
    \/ ObserveCreate
    \/ ObserveUpload
    \/ ObserveSimilarity
    \/ ObserveSearch
    \/ ObserveAsk

(***************************************************************************)
(* common/oso_sync.py: facts that follow a user                            *)
(***************************************************************************)
ActivePatients(ps) == {p \in DOMAIN ps : ps[p].is_active}

\* sync_admin_global_access: admin on every active patient, document,
\* embedding and active user
sync_admin_global_access(uid, us, ps, docs, embs) ==
    IF us[uid].role # "admin" THEN {}
    ELSE {Fact(uid, "admin", "Patient", p) : p \in ActivePatients(ps)}
         \cup {Fact(uid, "admin", "Document", d.id) : d \in docs}
         \cup {Fact(uid, "admin", "Embedding", e.id) : e \in embs}
         \cup {Fact(uid, "admin", "User", o) : o \in {o \in DOMAIN us : us[o].is_active}}

\* remove_admin_global_access: tx.delete(("has_role", user_value, "admin", None))
remove_admin_global_access(fs, uid) == {f \in fs : ~(f.user = uid /\ f.role = "admin")}

\* sync_user_role_change, with the rows as committed by update_user
sync_user_role_change(fs, uid, old_role, us, ps, docs, embs) ==
    LET removed == IF old_role = "admin" /\ us[uid].role # "admin"
                   THEN remove_admin_global_access(fs, uid) ELSE fs
        added == IF us[uid].role = "admin" /\ old_role # "admin"
                 THEN removed \cup sync_admin_global_access(uid, us, ps, docs, embs)
                 ELSE removed
        nurse_of == {p \in ActivePatients(ps) :
                        us[uid].role = "nurse" /\ ps[p].department = us[uid].department}
    IN  {f \in added : ~(f.user = uid /\ f.role = "department_nurse" /\ f.rtype = "Patient"
                         /\ f.rid \in ActivePatients(ps))}
        \cup {Fact(uid, "department_nurse", "Patient", p) : p \in nurse_of}

\* sync_department_change, with the rows as committed by update_user
sync_department_change(fs, uid, old_department, us, ps) ==
    LET old_patients == {p \in ActivePatients(ps) : ps[p].department = old_department}
        new_patients == {p \in ActivePatients(ps) : ps[p].department = us[uid].department}
        removed == IF old_department # "" /\ us[uid].role = "nurse"
                   THEN {f \in fs : ~(f.user = uid /\ f.role = "department_nurse"
                                      /\ f.rtype = "Patient" /\ f.rid \in old_patients)}
                   ELSE fs
    IN  IF us[uid].department # "" /\ us[uid].role = "nurse"
        THEN removed \cup {Fact(uid, "department_nurse", "Patient", p) : p \in new_patients}
        ELSE removed

(***************************************************************************)
(* auth_service/routers/users.py                                           *)
(***************************************************************************)
update_user(caller, user_id, role, dept, oso_up) ==
    LET reject(status) ==
            /\ resp' = Resp("update_user", status, "", user_id, 0, "n/a")
            /\ UNCHANGED <<users, facts, oso_failed>>
    IN  /\ IF user_id \notin DOMAIN users THEN reject(404)
           ELSE IF users[caller].role # "admin" THEN reject(403)
           ELSE LET old_role == users[user_id].role
                    old_department == users[user_id].department
                    us == [users EXCEPT ![user_id].role = role,
                                        ![user_id].department = dept]
                    after_role ==
                        IF old_role # role
                        THEN sync_user_role_change(facts, user_id, old_role, us, patients,
                                                   documents, embeddings)
                        ELSE facts
                    after_department ==
                        IF old_department # dept
                        THEN sync_department_change(after_role, user_id, old_department,
                                                    us, patients)
                        ELSE after_role
                IN  /\ users' = us
                    /\ facts' = IF oso_up THEN after_department ELSE facts
                    /\ oso_failed' = (oso_failed \/ (~oso_up /\ (old_role # role
                                                                \/ old_department # dept)))
                    /\ resp' = Resp("update_user", 200, "", user_id, 0, "n/a")
        /\ UNCHANGED <<patients, documents, embeddings, next_id>>
        /\ UNCHANGED outsidePortal

\* create_user line 133, register lines 75-79: a row with this username
\* (the username stands for the username/email pair of the request)
username_exists(us, username) == \E u \in DOMAIN us : us[u].username = username

\* (mutant) a failed fact synchronization fails the request
sync_failure_raised(status, synced) == IF synced THEN status ELSE 500

\* create_user lines 157-163: the synchronization runs inside try/except,
\* the response is the committed row whatever it did
sync_failure_swallowed(status, synced) == status

create_user(cap, caller, username, role, dept, oso_up) ==
    LET uid == Len(users) + 1
        us == Append(users, UserRow(username, role, dept))
        synced == role # "admin" \/ oso_up
        reject(status) ==
            /\ resp' = Resp("create_user", status, "", 0, 0, "n/a")
            /\ UNCHANGED <<users, facts, oso_failed>>
    IN  /\ caller \in DOMAIN users
        /\ Len(users) < cap \/ users[caller].role # "admin" \/ username_exists(users, username)
        /\ IF users[caller].role # "admin" THEN reject(403)
           ELSE IF username_exists(users, username) THEN reject(400)
           ELSE /\ users' = us
                /\ facts' = IF role = "admin" /\ oso_up
                            THEN facts \cup sync_admin_global_access(uid, us, patients,
                                                                     documents, embeddings)
                            ELSE facts
                /\ oso_failed' = (oso_failed \/ ~synced)
                /\ resp' = Resp("create_user", sync_failure_swallowed(200, synced), "",
                                uid, 0, "n/a")
        /\ UNCHANGED <<patients, documents, embeddings, next_id>>
        /\ UNCHANGED outsidePortal

\* auth_service/routers/auth.py: register writes no fact
register(cap, caller, username, role, dept, authz) ==
    LET uid == Len(users) + 1
        reject(status) ==
            /\ resp' = Resp("register", status, "", 0, 0, authz)
            /\ UNCHANGED users
    IN  /\ caller \in DOMAIN users
        /\ Len(users) < cap \/ authz # "allow" \/ username_exists(users, username)
        /\ IF authz = "error" THEN reject(500)
           ELSE IF authz = "deny" THEN reject(403)
           ELSE IF username_exists(users, username) THEN reject(400)
           ELSE /\ users' = Append(users, UserRow(username, role, dept))
                /\ resp' = Resp("register", 200, "", uid, 0, authz)
        /\ UNCHANGED <<patients, documents, embeddings, next_id, facts, oso_failed>>
        /\ UNCHANGED outsidePortal

\* Commit, then synchronize: the admin creates and changes users, a doctor
\* creates, changes and deactivates a patient, and the policy service
\* refuses any of the fact writes that follow a commit.
CommitCreateUser ==
    \E caller \in {1, 2}, username \in {"dr_smith", "admin_two"}, role \in {"admin", "nurse"} :
        \E oso_up \in BOOLEAN :
            create_user(MaxUsers, caller, username, role, "cardiology", oso_up)

CommitUpdateUser ==
    \E dept \in Depts, oso_up \in BOOLEAN :
        update_user(1, 4, "nurse", dept, oso_up)

CommitCreatePatient ==
    CreatePatientOver(FactsPatients, {2}, {1}, {"cardiology"}, {2}, {TRUE}, BOOLEAN)

CommitUpdatePatient ==
    UpdatePatientOver(FactsPatients, {1}, Depts, {2, 3}, {TRUE}, {"allow"}, BOOLEAN)

CommitDeletePatient == DeletePatientOver(FactsPatients, {"allow"}, BOOLEAN)

CommitNext ==
    \/ CommitCreateUser
    \/ CommitUpdateUser
    \/ CommitCreatePatient
    \/ CommitUpdatePatient
    \/ CommitDeletePatient

\* User and patient rows: every operation of the auth and patient services
\* that reads or writes a user or patient row.
RowsCreateUser ==
    \E caller \in {1, 2}, username \in {"dr_smith", "nurse_new"} :
        create_user(MaxUsers, caller, username, "nurse", "cardiology", TRUE)

RowsRegister ==
    \E username \in {"dr_smith", "nurse_new"}, authz \in AuthzAnswers :
        register(MaxUsers, 1, username, "nurse", "cardiology", authz)

RowsUpdateUser ==
    \E caller \in {1, 2}, user_id \in {4, MaxUsers + 1}, dept \in Depts :
        update_user(caller, user_id, "nurse", dept, TRUE)

RowsCreatePatient ==
    CreatePatientOver(FactsPatients, {2}, 1..FactsPatients, {"cardiology"}, {2}, {TRUE}, {TRUE})

RowsUpdatePatient ==
    UpdatePatientOver(FactsPatients, 1..FactsPatients, {"cardiology"}, {2}, {TRUE},
                      {"allow", "deny"}, {TRUE})

RowsDeletePatient == DeletePatientOver(FactsPatients, AuthzAnswers, {TRUE})

RowsGetPatient ==
    \E pid \in 1..FactsPatients, authz \in AuthzAnswers :
        get_patient(4, pid, authz)

RowsNext ==
    \/ RowsCreateUser
    \/ RowsRegister
    \/ RowsUpdateUser
    \/ RowsCreatePatient
    \/ RowsUpdatePatient
    \/ RowsDeletePatient
    \/ RowsGetPatient

\* Staff changes: the admin moves the cardiology nurse between departments and
\* roles while a doctor creates documents and a patient.
StaffCreateDocument ==
    \E dept \in Depts, sensitive \in BOOLEAN :
        create_document(MaxDocs, 2, 900, "policy", dept, sensitive, TRUE, "disabled")

StaffUpdateUser ==
    \E caller \in {1, 2}, role \in {"nurse", "doctor"}, dept \in Depts :
        update_user(caller, 4, role, dept, TRUE)

StaffCreatePatient ==
    CreatePatientOver(FactsPatients, {2}, 1..FactsPatients, {"cardiology"}, {2}, {TRUE}, {TRUE})

StaffUpdatePatient ==
    UpdatePatientOver(FactsPatients, 1..FactsPatients, {"cardiology"}, {2, 3}, {TRUE},
                      {"allow"}, {TRUE})

StaffNext ==
    \/ StaffCreateDocument
    \/ StaffUpdateUser
    \/ StaffCreatePatient
    \/ StaffUpdatePatient

(***************************************************************************)
(* common/oso_sync.py: what each function returns when policy-service      *)
(* calls fail.  A result holds the facts left in the store, the value      *)
(* returned, and whether a policy-service call made on the way failed.     *)
(***************************************************************************)
OsoResult(fs, ret, failed) == [facts |-> fs, ret |-> ret, failed |-> failed]

\* with oso.batch() as tx: the writes are sent together when the block ends;
\* a failure raises into the function's except, which returns False
Batch(fs, after, up) ==
    IF up THEN OsoResult(after, TRUE, FALSE) ELSE OsoResult(fs, FALSE, TRUE)

sync_admin_global_access_call(fs, uid, up) ==
    IF users[uid].role # "admin" THEN OsoResult(fs, FALSE, FALSE)
    ELSE Batch(fs, fs \cup sync_admin_global_access(uid, users, patients, documents,
                                                     embeddings), up)

remove_admin_global_access_call(fs, uid, up) ==
    Batch(fs, remove_admin_global_access(fs, uid), up)

sync_patient_access_call(fs, pid, up) ==
    Batch(fs, fs \cup sync_patient_access(pid, patients[pid], users), up)

remove_patient_access_call(fs, pid, up) == Batch(fs, remove_patient_access(fs, pid), up)

sync_document_access_call(fs, d, up) ==
    Batch(fs, fs \cup sync_document_access(d, users, patients), up)

remove_document_access_call(fs, key, up) == Batch(fs, remove_document_access(fs, key), up)

sync_embedding_access_call(fs, eid, up) ==
    Batch(fs, fs \cup sync_embedding_access(eid, users), up)

\* remove_embedding_access: tx.delete(("has_role", None, None, embed_value))
remove_embedding_access(fs, eid) == {f \in fs : ~(f.rtype = "Embedding" /\ f.rid = eid)}

remove_embedding_access_call(fs, eid, up) == Batch(fs, remove_embedding_access(fs, eid), up)

\* where the loop of sync_user_role_change fails: at no call, or at the
\* oso.delete or the oso.insert it makes for one patient
NoFailure == [p |-> 0, step |-> "none"]
FailAt(p, step) == [p |-> p, step |-> step]
FailPoints(ps) == {NoFailure} \cup {FailAt(p, s) : p \in DOMAIN ps, s \in {"delete", "insert"}}

\* sync_user_role_change lines 335-345: the loop over the active patients,
\* each write sent on its own, from patient p on
RECURSIVE RoleLoop(_, _, _, _)
RoleLoop(fs, uid, p, fail) ==
    IF p > Len(patients) THEN OsoResult(fs, TRUE, FALSE)
    ELSE IF ~patients[p].is_active THEN RoleLoop(fs, uid, p + 1, fail)
    ELSE IF fail = FailAt(p, "delete") THEN OsoResult(fs, FALSE, TRUE)
    ELSE LET nurse == Fact(uid, "department_nurse", "Patient", p)
             deleted == fs \ {nurse}
         IN  IF users[uid].role = "nurse" /\ patients[p].department = users[uid].department
             THEN IF fail = FailAt(p, "insert") THEN OsoResult(deleted, FALSE, TRUE)
                  ELSE RoleLoop(deleted \cup {nurse}, uid, p + 1, fail)
             ELSE RoleLoop(deleted, uid, p + 1, fail)

\* sync_user_role_change: the results of remove_admin_global_access and
\* sync_admin_global_access are not looked at
sync_user_role_change_call(fs, uid, old_role, remove_up, add_up, fail) ==
    LET removed == IF old_role = "admin" /\ users[uid].role # "admin"
                   THEN remove_admin_global_access_call(fs, uid, remove_up)
                   ELSE OsoResult(fs, TRUE, FALSE)
        added == IF users[uid].role = "admin" /\ old_role # "admin"
                 THEN sync_admin_global_access_call(removed.facts, uid, add_up)
                 ELSE OsoResult(removed.facts, TRUE, FALSE)
        looped == RoleLoop(added.facts, uid, 1, fail)
    IN  OsoResult(looped.facts, looped.ret,
                  removed.failed \/ added.failed \/ looped.failed)

\* sync_department_change: two batches in one try
sync_department_change_call(fs, uid, old_department, remove_up, add_up) ==
    LET old_patients == {p \in ActivePatients(patients) :
                            patients[p].department = old_department}
        new_patients == {p \in ActivePatients(patients) :
                            patients[p].department = users[uid].department}
        nurse == users[uid].role = "nurse"
        removes == old_department # "" /\ nurse
        adds == users[uid].department # "" /\ nurse
        removed == {f \in fs : ~(f.user = uid /\ f.role = "department_nurse"
                                 /\ f.rtype = "Patient" /\ f.rid \in old_patients)}
        after_remove == IF removes THEN removed ELSE fs
    IN  IF removes /\ ~remove_up THEN OsoResult(fs, FALSE, TRUE)
        ELSE IF adds /\ ~add_up THEN OsoResult(after_remove, FALSE, TRUE)
        ELSE OsoResult(IF adds
                       THEN after_remove \cup {Fact(uid, "department_nurse", "Patient", p) :
                                                  p \in new_patients}
                       ELSE after_remove,
                       TRUE, FALSE)

\* full_resync: every function it calls returns its own result, which
\* full_resync does not look at; up says which kinds of call go through
full_resync_call(fs, up) ==
    LET admins == ActiveAdmins(users)
        admin_facts == UNION {sync_admin_global_access(a, users, patients, documents,
                                                       embeddings) : a \in admins}
        patient_facts == UNION {sync_patient_access(p, patients[p], users) :
                                   p \in ActivePatients(patients)}
        document_facts == UNION {sync_document_access(d, users, patients) : d \in documents}
        embedding_facts == UNION {sync_embedding_access(e.id, users) : e \in embeddings}
    IN  OsoResult(fs \cup (IF up.users THEN admin_facts ELSE {})
                     \cup (IF up.patients THEN patient_facts ELSE {})
                     \cup (IF up.documents THEN document_facts ELSE {})
                     \cup (IF up.embeddings THEN embedding_facts ELSE {}),
                  TRUE,
                  \/ ~up.users /\ admins # {}
                  \/ ~up.patients /\ ActivePatients(patients) # {}
                  \/ ~up.documents /\ documents # {}
                  \/ ~up.embeddings /\ embeddings # {})

\* one call of a fact-synchronization function: the store it leaves and the
\* value it returned
OsoResp(op, r) == [op |-> op, status |-> 0, ret |-> r.ret, failed |-> r.failed]

OsoCall(op, r) ==
    /\ facts' = r.facts
    /\ oso_failed' = (oso_failed \/ r.failed)
    /\ resp' = OsoResp(op, r)
    /\ UNCHANGED <<users, patients, documents, embeddings, next_id>>
    /\ UNCHANGED outsidePortal

SyncUsers == {1, 4}

SyncAdminGlobalAccess ==
    \E uid \in SyncUsers, up \in BOOLEAN :
        OsoCall("sync_admin_global_access", sync_admin_global_access_call(facts, uid, up))

RemoveAdminGlobalAccess ==
    \E uid \in SyncUsers, up \in BOOLEAN :
        OsoCall("remove_admin_global_access", remove_admin_global_access_call(facts, uid, up))

SyncPatientAccess ==
    \E pid \in DOMAIN patients, up \in BOOLEAN :
        OsoCall("sync_patient_access", sync_patient_access_call(facts, pid, up))

RemovePatientAccess ==
    \E pid \in DOMAIN patients, up \in BOOLEAN :
        OsoCall("remove_patient_access", remove_patient_access_call(facts, pid, up))

SyncDocumentAccess ==
    \E d \in documents, up \in BOOLEAN :
        OsoCall("sync_document_access", sync_document_access_call(facts, d, up))

RemoveDocumentAccess ==
    \E d \in documents, up \in BOOLEAN :
        OsoCall("remove_document_access", remove_document_access_call(facts, d.id, up))

SyncEmbeddingAccess ==
    \E e \in embeddings, up \in BOOLEAN :
        OsoCall("sync_embedding_access", sync_embedding_access_call(facts, e.id, up))

RemoveEmbeddingAccess ==
    \E e \in embeddings, up \in BOOLEAN :
        OsoCall("remove_embedding_access", remove_embedding_access_call(facts, e.id, up))

SyncUserRoleChange ==
    \E uid \in SyncUsers, old_role \in {"admin", "nurse"}, remove_up \in BOOLEAN,
       add_up \in BOOLEAN, fail \in FailPoints(patients) :
        OsoCall("sync_user_role_change",
                sync_user_role_change_call(facts, uid, old_role, remove_up, add_up, fail))

SyncDepartmentChange ==
    \E uid \in SyncUsers, old_department \in Depts, remove_up \in BOOLEAN,
       add_up \in BOOLEAN :
        OsoCall("sync_department_change",
                sync_department_change_call(facts, uid, old_department, remove_up, add_up))

FullResync ==
    \E up \in [users : BOOLEAN, patients : BOOLEAN, documents : BOOLEAN,
               embeddings : BOOLEAN] :
        OsoCall("full_resync", full_resync_call(facts, up))

\* Fact synchronization: a doctor creates a patient and uploads one-chunk
\* documents; every function of oso_sync is then called on the rows, with
\* the policy service failing at any of its calls.
SyncCreatePatient ==
    CreatePatientOver(FactsPatients, {2}, 1..FactsPatients, {"cardiology"}, {2}, {TRUE}, {TRUE})

SyncUpload ==
    upload_document(SyncDocs, MaxEmbeddings, 2, 900, "policy", "cardiology", FALSE, {1}, TRUE)

SyncNext ==
    \/ SyncCreatePatient
    \/ SyncUpload
    \/ SyncAdminGlobalAccess
    \/ RemoveAdminGlobalAccess
    \/ SyncPatientAccess
    \/ RemovePatientAccess
    \/ SyncDocumentAccess
    \/ RemoveDocumentAccess
    \/ SyncEmbeddingAccess
    \/ RemoveEmbeddingAccess
    \/ SyncUserRoleChange
    \/ SyncDepartmentChange
    \/ FullResync

(***************************************************************************)
(* A fresh installation: seed_data.py get_admin_token creates the          *)
(* bootstrap admin and synchronizes its facts; every other row is created  *)
(* through the services.                                                   *)
(***************************************************************************)
BootstrapUsers == <<UserRow("admin_wilson", "admin", "administration")>>

BootstrapInit ==
    /\ users = BootstrapUsers
    /\ patients = <<>>
    /\ documents = {}
    /\ embeddings = {}
    /\ next_id = [document |-> 1, embedding |-> 1]
    /\ facts = sync_admin_global_access(1, BootstrapUsers, <<>>, {}, {})
    /\ oso_failed = FALSE
    /\ resp = NoResp

\* Creations only, and no call fails: the bootstrap admin creates a doctor
\* and a second admin, a nurse registers, and the admin creates patients and
\* documents and uploads a document of one chunk.
GrantsCreateUser ==
    \E who \in {<<"dr_smith", "doctor">>, <<"admin_two", "admin">>} :
        create_user(MaxUsers, 1, who[1], who[2], "cardiology", TRUE)

GrantsRegister == register(MaxUsers, 1, "nurse_johnson", "nurse", "cardiology", "allow")

GrantsCreatePatient ==
    CreatePatientOver(FactsPatients, {1}, 1..FactsPatients, {"cardiology"}, {NoDoctor},
                      {TRUE}, {TRUE})

GrantsCreateDocument ==
    create_document(MaxDocs, 1, 900, "policy", "cardiology", FALSE, TRUE, "disabled")

GrantsUpload ==
    upload_document(MaxDocs, MaxEmbeddings, 1, 900, "", "", FALSE, {1}, TRUE)

GrantsNext ==
    \/ GrantsCreateUser
    \/ GrantsRegister
    \/ GrantsCreatePatient
    \/ GrantsCreateDocument
    \/ GrantsUpload

(***************************************************************************)
(* common/seed_data.py: one run of the seeding script                      *)
(***************************************************************************)
MaxSeedDocs == 5

\* demo_users, demo_patients (records numbered as in MRN-2024-00n),
\* demo_documents and the title of the patient document
DemoUsers ==
    <<[username |-> "dr_smith", role |-> "doctor", department |-> "cardiology"],
      [username |-> "nurse_johnson", role |-> "nurse", department |-> "emergency"]>>
DemoPatients == <<1, 2, 3>>
DemoDocuments ==
    <<[title |-> "Cardiology Department Protocols", document_type |-> "protocol"],
      [title |-> "Hypertension Management Guidelines", document_type |-> "guideline"],
      [title |-> "Heart Failure Patient Education", document_type |-> "education"]>>
PatientTitle(mrn) ==
    CASE mrn = 1 -> "Medical History - John Anderson"
      [] mrn = 2 -> "Medical History - Maria Rodriguez"
      [] OTHER -> "Medical History - Robert Chen"

\* the requests.post calls of a run, each of which may be answered with an
\* error status or raise
SeedCalls ==
    ({"user"} \X DOMAIN DemoUsers) \cup ({"patient"} \X DOMAIN DemoPatients)
    \cup ({"document"} \X DOMAIN DemoDocuments) \cup {<<"patient_document", 1>>}

UserNamed(us, username) == CHOOSE u \in DOMAIN us : us[u].username = username

Database ==
    [users |-> users, patients |-> patients, documents |-> documents, next |-> next_id,
     facts |-> facts, errors |-> 0, created |-> <<>>]

\* get_admin_token lines 56-78: the bootstrap admin, created directly
bootstrap_admin(db) ==
    IF username_exists(db.users, "admin_wilson") THEN db
    ELSE LET us == Append(db.users, UserRow("admin_wilson", "admin", "administration"))
         IN  [db EXCEPT !.users = us,
                        !.facts = @ \cup sync_admin_global_access(Len(us), us, db.patients,
                                                                  db.documents, embeddings)]

\* seed_users: the loop from demo user i on; a user is created by POST
\* /api/v1/users/ with the admin's token
RECURSIVE SeedUsersFrom(_, _, _)
SeedUsersFrom(db, i, failed) ==
    IF i > Len(DemoUsers) THEN db
    ELSE LET u == DemoUsers[i]
             after == IF username_exists(db.users, u.username) THEN db
                      ELSE IF <<"user", i>> \in failed THEN [db EXCEPT !.errors = @ + 1]
                      ELSE [db EXCEPT !.users = Append(@, UserRow(u.username, u.role,
                                                                  u.department))]
         IN  SeedUsersFrom(after, i + 1, failed)

seed_users(db, failed) == SeedUsersFrom(db, 1, failed)

\* seed_patients: the loop from demo patient i on; db.created is the list
\* created_patients
RECURSIVE SeedPatientsFrom(_, _, _)
SeedPatientsFrom(db, i, failed) ==
    IF i > Len(DemoPatients) THEN db
    ELSE LET mrn == DemoPatients[i]
             ps == db.patients
             row == PatientRow(mrn, "cardiology", UserNamed(db.users, "dr_smith"))
             pid == Len(ps) + 1
             after ==
                 IF mrn_exists(ps, mrn)
                 THEN LET q == CHOOSE q \in DOMAIN ps : ps[q].medical_record_number = mrn
                      IN  [db EXCEPT !.facts = @ \cup sync_patient_access(q, ps[q], db.users),
                                     !.created = Append(@, q)]
                 ELSE IF <<"patient", i>> \in failed THEN [db EXCEPT !.errors = @ + 1]
                 ELSE [db EXCEPT !.patients = Append(@, row),
                                 !.facts = @ \cup sync_patient_access(pid, row, db.users),
                                 !.created = Append(@, pid)]
         IN  SeedPatientsFrom(after, i + 1, failed)

seed_patients(db, failed) ==
    IF ~username_exists(db.users, "dr_smith") THEN db ELSE SeedPatientsFrom(db, 1, failed)

\* POST /api/v1/documents/ with the admin's token: create_document stores
\* title, content, document_type, department, is_sensitive and created_by_id;
\* the patient_id of the request is not stored
post_document(db, title, type, sensitive, patient_id) ==
    LET row == [DocumentRow(db.next.document, 900, type, "cardiology", sensitive,
                            UserNamed(db.users, "admin_wilson")) EXCEPT !.title = title]
    IN  [db EXCEPT !.documents = @ \cup {row},
                   !.next = [@ EXCEPT !.document = @ + 1],
                   !.facts = @ \cup sync_document_access(row, db.users, db.patients)]

RECURSIVE SeedDocumentsFrom(_, _, _)
SeedDocumentsFrom(db, i, failed) ==
    IF i > Len(DemoDocuments) THEN db
    ELSE LET d == DemoDocuments[i]
             after == IF \E e \in db.documents : e.title = d.title THEN db
                      ELSE IF <<"document", i>> \in failed THEN [db EXCEPT !.errors = @ + 1]
                      ELSE post_document(db, d.title, d.document_type, FALSE, NoPatient)
         IN  SeedDocumentsFrom(after, i + 1, failed)

\* lines 452-542: the document of patients[0]
seed_patient_documents(db, failed) ==
    IF db.created = <<>> THEN db
    ELSE LET patient_id == db.created[1]
             title == PatientTitle(db.patients[patient_id].medical_record_number)
         IN  IF \E e \in db.documents : e.title = title /\ e.patient_id = patient_id THEN db
             ELSE IF <<"patient_document", 1>> \in failed THEN [db EXCEPT !.errors = @ + 1]
             ELSE post_document(db, title, "medical_record", TRUE, patient_id)

seed_documents(db, failed) ==
    IF ~username_exists(db.users, "dr_smith") THEN db
    ELSE seed_patient_documents(SeedDocumentsFrom(db, 1, failed), failed)

SeedResp(completed, db) ==
    [op |-> "seed_main", completed |-> completed, errors |-> db.errors]

\* main: wait_for_services, get_admin_token, seed_users, seed_patients,
\* seed_documents
seed_main(cap, ready, login_ok, failed) ==
    LET admin == bootstrap_admin(Database)
        seeded == seed_documents(seed_patients(seed_users(admin, failed), failed), failed)
        db == IF ~ready THEN Database ELSE IF ~login_ok THEN admin ELSE seeded
    IN  /\ db.next.document <= cap + 1
        /\ users' = db.users
        /\ patients' = db.patients
        /\ documents' = db.documents
        /\ next_id' = db.next
        /\ facts' = db.facts
        /\ resp' = SeedResp(ready /\ login_ok, db)
        /\ UNCHANGED <<embeddings, oso_failed>>
        /\ UNCHANGED outsidePortal

EmptyDatabase ==
    /\ users = <<>>
    /\ patients = <<>>
    /\ documents = {}
    /\ embeddings = {}
    /\ next_id = [document |-> 1, embedding |-> 1]
    /\ facts = {}
    /\ oso_failed = FALSE
    /\ resp = NoResp

\* a run in which at most one call fails
SeedRun ==
    \E ready \in BOOLEAN, login_ok \in BOOLEAN, failed \in {{}} \cup {{c} : c \in SeedCalls} :
        seed_main(MaxSeedDocs, ready, login_ok, failed)

SeedNext == SeedRun

(***************************************************************************)
(* common/seed_data.py: wait_for_services                                  *)
(***************************************************************************)
\* the services list of wait_for_services, and range(30)
services == <<"Auth Service", "Patient Service", "RAG Service">>
attempts == 30

\* what one GET /health can do: answer 200, answer another status, or raise
\* requests.RequestException (refused, timed out)
HealthOutcomes == {"200", "503", "RequestException"}

WaitIdle == [pc |-> "idle", service |-> 1, attempt |-> 0, answered |-> {}, ret |-> FALSE]

\* the position after the inner loop of service s has ended, by break or by
\* running out of attempts: the next service, or return True after the last
next_service(s, answered) ==
    IF s < Len(services)
    THEN [pc |-> "attempt", service |-> s + 1, attempt |-> 0, answered |-> answered, ret |-> FALSE]
    ELSE [pc |-> "returned", service |-> s, attempt |-> 0, answered |-> answered, ret |-> TRUE]

\* one iteration of the inner loop, lines 38-50
wait_for_services(outcome) ==
    LET s == wait.service
        a == wait.attempt
    IN  /\ wait.pc = "attempt"
        /\ wait' = CASE outcome = "200" -> next_service(s, wait.answered \cup {s})
                     [] outcome = "RequestException" ->
                            IF a < attempts - 1 THEN [wait EXCEPT !.attempt = a + 1]
                            ELSE [wait EXCEPT !.pc = "returned", !.ret = FALSE]
                     [] OTHER ->
                            IF a < attempts - 1 THEN [wait EXCEPT !.attempt = a + 1]
                            ELSE next_service(s, wait.answered)
        /\ UNCHANGED <<fn_globals, frames, cache, hash_result>>
        /\ UNCHANGED <<orchVars, portalVars, voiceVars, agentVars>>

\* main is started: it calls wait_for_services first (line 563)
main_start ==
    /\ wait.pc = "idle" \/ (wait.pc = "returned" /\ resp.op = "seed_main")
    /\ wait' = [WaitIdle EXCEPT !.pc = "attempt"]
    /\ resp' = NoResp
    /\ UNCHANGED <<users, patients, documents, embeddings, next_id, facts, oso_failed>>
    /\ UNCHANGED <<fn_globals, frames, cache, hash_result>>
    /\ UNCHANGED <<orchVars, voiceVars, agentVars>>

\* main after wait_for_services has returned, lines 563-577
main_after_wait(cap, login_ok) ==
    /\ wait.pc = "returned"
    /\ resp.op # "seed_main"
    /\ seed_main(cap, wait.ret, login_ok, {})

WaitStart == main_start

WaitAttempt == \E outcome \in HealthOutcomes : wait_for_services(outcome)

WaitSeed == \E login_ok \in BOOLEAN : main_after_wait(MaxSeedDocs, login_ok)

WaitNext ==
    \/ WaitStart
    \/ WaitAttempt
    \/ WaitSeed

ScriptIdle ==
    /\ wait = WaitIdle
    /\ fn_globals = [fn \in {} |-> <<>>]
    /\ frames = <<>>
    /\ cache = {}
    /\ hash_result = "none"

(***************************************************************************)
(* code-insights-dev/deep_lookup.py: function_fingerprint                  *)
(***************************************************************************)
\* The module under fingerprinting defines three functions; f is decorated
\* with @function_fingerprint, so the global name f is bound to the wrapper
\* and get_hash starts from original_func, the undecorated f.
Functions == {"f", "g", "h"}
NameOrder == <<"f", "g", "h">>

\* fn.__globals__[name]
Resolve(name) == IF name = "f" THEN "wrapper" ELSE name

\* the global names a function's bytecode loads, in instruction order; the
\* wrapper reaches original_func through its closure and loads no global
LoadsOf(S) == SelectSeq(NameOrder, LAMBDA name : name \in S)
Modules ==
    {[fn \in Functions \cup {"wrapper"} |-> IF fn = "wrapper" THEN <<>> ELSE LoadsOf(refs[fn])] :
        refs \in [Functions -> SUBSET Functions]}

\* lines 40-50: the called functions found by the scan of the instructions,
\* those already in the cache skipped
called_functions(module, fn, stored) ==
    LET loaded == module[fn]
        resolved == [i \in DOMAIN loaded |-> Resolve(loaded[i])]
    IN  SelectSeq(resolved, LAMBDA called_fn : called_fn \notin stored)

Frame(module, fn, stored) == [fn |-> fn, called |-> called_functions(module, fn, stored)]

\* get_hash, lines 14-17: an empty cache, and the call of
\* _get_deep_hash(original_func, cache)
get_hash(module) ==
    /\ frames = <<>>
    /\ fn_globals' = module
    /\ cache' = {}
    /\ frames' = <<Frame(module, "f", {})>>
    /\ hash_result' = "running"
    /\ UNCHANGED wait
    /\ UNCHANGED <<orchVars, portalVars, voiceVars, agentVars>>

\* line 23: fn_id in cache
cached(fn_id, stored) == fn_id \in stored

\* lines 54-56: the loop over called_functions calls _get_deep_hash for the
\* next called function, which returns at once when the function is in the
\* cache (lines 22-24) and scans it otherwise; the interpreter raises
\* RecursionError, which nothing here catches, when the stack is at its limit
call_deep_hash(limit) ==
    LET top == frames[Len(frames)]
        called_fn == Head(top.called)
        rest == [frames EXCEPT ![Len(frames)].called = Tail(top.called)]
    IN  /\ frames # <<>>
        /\ top.called # <<>>
        /\ IF cached(called_fn, cache)
           THEN frames' = rest /\ UNCHANGED hash_result
           ELSE IF Len(frames) >= limit
           THEN frames' = <<>> /\ hash_result' = "RecursionError"
           ELSE frames' = Append(rest, Frame(fn_globals, called_fn, cache)) /\ UNCHANGED hash_result
        /\ UNCHANGED <<fn_globals, cache, wait>>
        /\ UNCHANGED <<orchVars, portalVars, voiceVars, agentVars>>

\* lines 61-75: the hash of the innermost function is stored in the cache
\* and returned
return_hash ==
    LET top == frames[Len(frames)]
    IN  /\ frames # <<>>
        /\ top.called = <<>>
        /\ cache' = cache \cup {top.fn}
        /\ frames' = SubSeq(frames, 1, Len(frames) - 1)
        /\ hash_result' = IF Len(frames) = 1 THEN "hash" ELSE hash_result
        /\ UNCHANGED <<fn_globals, wait>>
        /\ UNCHANGED <<orchVars, portalVars, voiceVars, agentVars>>

\* sys.getrecursionlimit(), scaled down to the call graphs of three functions
RecursionLimit == 5

FingerprintGetHash == \E module \in Modules : get_hash(module)

FingerprintCall == call_deep_hash(RecursionLimit)

FingerprintReturn == return_hash

FingerprintNext ==
    \/ FingerprintGetHash
    \/ FingerprintCall
    \/ FingerprintReturn

(***************************************************************************)
(* MultiAgentOrchestrator                                                  *)
(***************************************************************************)
\* the decision route_query returns when json.loads raises
Fallback ==
    JObj([primary_agent |-> JStr("supply_chain"),
          secondary_agents |-> JList(<<>>),
          requires_collaboration |-> JBool(FALSE),
          execution_order |-> JList(<<JStr("supply_chain")>>)])

\* (mutant) route_query whose except clause is missing: the parse error escapes
route_query_unguarded(toks) ==
    LET r == JsonLoads(toks)
    IN  IF r.ok THEN [raised |-> FALSE, val |-> r.val]
        ELSE [raised |-> TRUE, val |-> JNone]

\* route_query after the LLM call: try json.loads, bare except -> fallback
route_query(toks) ==
    LET r == JsonLoads(toks)
    IN  IF r.ok THEN [raised |-> FALSE, val |-> r.val]
        ELSE [raised |-> FALSE, val |-> Fallback]

\* (mutant) an unknown name is answered by the supply_chain agent
SelectAgentOrDefault(v) ==
    IF v.t = "str" /\ v.s \in Agents THEN [ok |-> TRUE, name |-> v.s]
    ELSE [ok |-> TRUE, name |-> "supply_chain"]

\* self.agents[agent_name]: KeyError (TypeError for an unhashable name) unless
\* the name is one of the two agents
SelectAgent(v) ==
    IF v.t = "str" /\ v.s \in Agents THEN [ok |-> TRUE, name |-> v.s]
    ELSE [ok |-> FALSE, name |-> "-"]

\* for agent_name in routing_decision["execution_order"]: a list is walked item
\* by item; anything else the templates can produce fails on its first step
IterItems(v) ==
    IF v.t = "list" THEN [ok |-> TRUE, items |-> v.items]
    ELSE [ok |-> FALSE, items |-> <<>>]

\* _build_context_message: every entry of results, then a hint for the agent
build_context_message(previous_results, current_agent) ==
    [results |-> previous_results,
     hint |-> IF current_agent = "financial" THEN "complement_supply_chain"
              ELSE IF current_agent = "supply_chain" THEN "consider_financial"
              ELSE "none"]

NoContext == [results |-> {}, hint |-> "none"]

\* (mutant) the context message is added only from the third agent on
agent_messages_late(res, hist, agent_name) ==
    IF Cardinality(res) > 1
    THEN [hist |-> hist, hasCtx |-> TRUE, ctx |-> build_context_message(res, agent_name)]
    ELSE [hist |-> hist, hasCtx |-> FALSE, ctx |-> NoContext]

\* the messages handed to an agent of the collaborative workflow: the
\* conversation so far, and the context message once a result exists
agent_messages(res, hist, agent_name) ==
    IF Cardinality(res) > 0
    THEN [hist |-> hist, hasCtx |-> TRUE, ctx |-> build_context_message(res, agent_name)]
    ELSE [hist |-> hist, hasCtx |-> FALSE, ctx |-> NoContext]

\* results[agent_name] = latest_message.content
SetResult(res, name, rid) == {e \in res : e[1] # name} \cup {<<name, rid>>}

AgentCall(name, msgs) == [kind |-> "agent", agent |-> name, msgs |-> msgs]
LlmCall(kind, res) ==
    [kind |-> kind, agent |-> "-",
     msgs |-> [hist |-> <<>>, hasCtx |-> FALSE, ctx |-> [results |-> res, hint |-> "none"]]]

NoOutput == [kind |-> "none", rid |-> 0]

OrchIdle ==
    /\ sent = [d |-> [primary |-> "absent", requires |-> "absent", hasOrder |-> FALSE,
                      order |-> <<>>, hasSecondary |-> FALSE],
               form |-> "empty"]
    /\ content = <<>>
    /\ pc = "off"
    /\ routing_decision = JNone
    /\ results = {}
    /\ conversation_history = <<>>
    /\ idx = 0
    /\ calls = <<>>
    /\ output = NoOutput

\* process_query is entered; the routing LLM is about to answer
OrchInit ==
    /\ sent \in [d : Meant, form : Forms]
    /\ content = ContentOf(sent)
    /\ pc = "start"
    /\ routing_decision = JNone
    /\ results = {}
    /\ conversation_history = <<>>
    /\ idx = 0
    /\ calls = <<>>
    /\ output = NoOutput

\* process_query line 157: routing_decision = self.route_query(user_query)
RouteQuery ==
    /\ UNCHANGED outsideOrch
    /\ pc = "start"
    /\ LET r == route_query(content)
       IN  /\ pc' = IF r.raised THEN "raised_in_route" ELSE "routed"
           /\ routing_decision' = r.val
    /\ calls' = Append(calls, LlmCall("route", {}))
    /\ UNCHANGED <<sent, content, results, conversation_history, idx, output>>

\* process_query line 160 on a value without the key (or no dict at all)
DispatchRaise ==
    /\ UNCHANGED outsideOrch
    /\ pc = "routed"
    /\ ~HasKey(routing_decision, "requires_collaboration")
    /\ pc' = "raised"
    /\ UNCHANGED <<sent, content, routing_decision, results, conversation_history, idx,
                   calls, output>>

\* process_query lines 162-167: single agent execution
SingleAgent ==
    /\ UNCHANGED outsideOrch
    /\ pc = "routed"
    /\ HasKey(routing_decision, "requires_collaboration")
    /\ ~Truthy(routing_decision.m["requires_collaboration"])
    /\ IF HasKey(routing_decision, "primary_agent")
          /\ SelectAgent(routing_decision.m["primary_agent"]).ok
       THEN /\ calls' = Append(calls,
                    AgentCall(SelectAgent(routing_decision.m["primary_agent"]).name,
                              [hist |-> <<>>, hasCtx |-> FALSE, ctx |-> NoContext]))
            /\ output' = [kind |-> "agent", rid |-> Len(calls) + 1]
            /\ pc' = "done"
       ELSE /\ pc' = "raised"
            /\ UNCHANGED <<calls, output>>
    /\ UNCHANGED <<sent, content, routing_decision, results, conversation_history, idx>>

\* execute_collaborative_workflow lines 71-74: entering the loop
StartCollab ==
    /\ UNCHANGED outsideOrch
    /\ pc = "routed"
    /\ HasKey(routing_decision, "requires_collaboration")
    /\ Truthy(routing_decision.m["requires_collaboration"])
    /\ results' = {}
    /\ conversation_history' = <<>>
    /\ IF HasKey(routing_decision, "execution_order")
          /\ IterItems(routing_decision.m["execution_order"]).ok
       THEN pc' = "collab" /\ idx' = 1
       ELSE pc' = "raised" /\ idx' = idx
    /\ UNCHANGED <<sent, content, routing_decision, calls, output>>

ExecutionOrder == IterItems(routing_decision.m["execution_order"]).items

\* execute_collaborative_workflow lines 74-90: one iteration of the loop
CollabStep ==
    /\ UNCHANGED outsideOrch
    /\ pc = "collab"
    /\ idx <= Len(ExecutionOrder)
    /\ LET a == SelectAgent(ExecutionOrder[idx])
           rid == Len(calls) + 1
       IN  IF a.ok
           THEN /\ calls' = Append(calls,
                        AgentCall(a.name, agent_messages(results, conversation_history, a.name)))
                /\ results' = SetResult(results, a.name, rid)
                /\ conversation_history' = Append(conversation_history, rid)
                /\ idx' = idx + 1
                /\ pc' = pc
           ELSE /\ pc' = "raised"
                /\ UNCHANGED <<calls, results, conversation_history, idx>>
    /\ UNCHANGED <<sent, content, routing_decision, output>>

\* execute_collaborative_workflow line 93 and _synthesize_final_response
Synthesize ==
    /\ UNCHANGED outsideOrch
    /\ pc = "collab"
    /\ idx > Len(ExecutionOrder)
    /\ IF ~Truthy(routing_decision.m["requires_collaboration"])
       THEN \* lines 120-123: results[primary_agent]
            IF HasKey(routing_decision, "primary_agent")
               /\ \E e \in results : JStr(e[1]) = routing_decision.m["primary_agent"]
            THEN /\ output' = [kind |-> "agent",
                               rid |-> (CHOOSE e \in results :
                                          JStr(e[1]) = routing_decision.m["primary_agent"])[2]]
                 /\ pc' = "done"
                 /\ calls' = calls
            ELSE pc' = "raised" /\ UNCHANGED <<calls, output>>
       ELSE /\ calls' = Append(calls, LlmCall("synth", results))
            /\ output' = [kind |-> "synthesis", rid |-> Len(calls) + 1]
            /\ pc' = "done"
    /\ UNCHANGED <<sent, content, routing_decision, results, conversation_history, idx>>

OrchNext ==
    \/ RouteQuery
    \/ DispatchRaise
    \/ SingleAgent
    \/ StartCollab
    \/ CollabStep
    \/ Synthesize

(***************************************************************************)
(* sample-project-voice-chatbot/service/main.py                            *)
(***************************************************************************)
Sessions == {"session-a", "session-b"}

\* request.stage_id: None, the empty string, or the id of a stage
StageIds == {"None", "", "stage-1"}
\* Python truth of request.stage_id
stage_given(stage_id) == stage_id \notin {"None", ""}

\* what invoke_protect does: raises, or returns a response whose status is
\* triggered, not_triggered or another ExecutionStatus
ProtectOutcomes == {"raised", "triggered", "not_triggered", "failed"}

NoTurn ==
    [pc |-> "idle", session_id |-> "", check_guardrails |-> FALSE, stage_id |-> "None",
     blocked |-> FALSE, input_guardrail |-> "not_invoked", output_guardrail |-> "not_invoked"]

NoTurnResponse == [status |-> 0, success |-> FALSE, blocked |-> FALSE,
                   input_guardrail |-> "None", output_guardrail |-> "None"]

\* except Exception: raise HTTPException(status_code=500)
TurnFailed == [NoTurnResponse EXCEPT !.status = 500]

VoiceIdle ==
    /\ loggers = {}
    /\ active_traces = [s \in {} |-> FALSE]
    /\ turn = NoTurn
    /\ galileo_calls = <<>>
    /\ turn_response = NoTurnResponse

\* SessionManager.has_active_trace: self._active_traces.get(session_id, False)
has_active_trace(session_id) ==
    IF session_id \in DOMAIN active_traces THEN active_traces[session_id] ELSE FALSE

\* SessionManager.set_active_trace
set_active_trace(traces, session_id, active) ==
    [s \in DOMAIN traces \cup {session_id} |-> IF s = session_id THEN active ELSE traces[s]]

\* _invoke_and_parse_protect: ProtectResponse.status and .blocked
ProtectResponse(outcome) ==
    [blocked |-> (outcome = "triggered"),
     status |-> IF outcome = "triggered" THEN "triggered" ELSE "not_triggered"]

\* the calls of one guardrail check: invoke_protect, then add_protect_span
\* when there is a result
GuardrailCalls(stage, outcome) ==
    IF outcome = "raised" THEN <<"invoke_protect_" \o stage>>
    ELSE <<"invoke_protect_" \o stage, "add_protect_span_" \o stage>>

\* an exception leaves the handler: the turn is over, the answer is 500
TurnRaises ==
    /\ turn' = [turn EXCEPT !.pc = "idle"]
    /\ turn_response' = TurnFailed

\* lines 277-302: the logger of the session, the conclude of a trace left
\* open, and start_trace
StartTrace(session_id, check_guardrails, stage_id, logger_ok, trace_ok) ==
    LET request == [NoTurn EXCEPT !.session_id = session_id,
                                  !.check_guardrails = check_guardrails,
                                  !.stage_id = stage_id]
        previous == IF has_active_trace(session_id) THEN <<"conclude_previous">> ELSE <<>>
    IN  /\ turn.pc = "idle"
        /\ IF session_id \notin loggers /\ ~logger_ok
           THEN /\ turn' = request
                /\ turn_response' = TurnFailed
                /\ galileo_calls' = <<>>
                /\ UNCHANGED <<loggers, active_traces>>
           ELSE /\ loggers' = loggers \cup {session_id}
                /\ galileo_calls' = previous \o <<"start_trace">>
                /\ IF trace_ok
                   THEN /\ active_traces' = set_active_trace(active_traces, session_id, TRUE)
                        /\ turn' = [request EXCEPT !.pc = "input_guardrail"]
                        /\ turn_response' = NoTurnResponse
                   ELSE /\ active_traces' =
                               set_active_trace(active_traces, session_id,
                                                has_active_trace(session_id))
                        /\ turn' = request
                        /\ turn_response' = TurnFailed
        /\ UNCHANGED <<orchVars, portalVars, agentVars, scriptVars>>

\* lines 308-336: the input guardrail
InputGuardrail(outcome) ==
    /\ turn.pc = "input_guardrail"
    /\ IF turn.check_guardrails /\ stage_given(turn.stage_id)
       THEN /\ galileo_calls' = galileo_calls \o GuardrailCalls("input", outcome)
            /\ turn' = [turn EXCEPT !.pc = "llm_span", !.input_guardrail = outcome,
                                    !.blocked = ProtectResponse(outcome).blocked]
       ELSE /\ turn' = [turn EXCEPT !.pc = "llm_span"]
            /\ UNCHANGED galileo_calls
    /\ UNCHANGED <<loggers, active_traces, turn_response>>
    /\ UNCHANGED <<orchVars, portalVars, agentVars, scriptVars>>

\* lines 338-353: the LLM span of the agent's response
AgentResponseSpan(span_ok) ==
    /\ turn.pc = "llm_span"
    /\ galileo_calls' = Append(galileo_calls, "add_llm_span")
    /\ IF span_ok
       THEN turn' = [turn EXCEPT !.pc = "output_guardrail"] /\ UNCHANGED turn_response
       ELSE TurnRaises
    /\ UNCHANGED <<loggers, active_traces>>
    /\ UNCHANGED <<orchVars, portalVars, agentVars, scriptVars>>

\* (mutant) the output guardrail runs although the input was blocked
output_guardrail_after_block(check_guardrails, stage_id, blocked) ==
    check_guardrails /\ stage_given(stage_id)

\* line 356: if request.check_guardrails and request.stage_id and not blocked
output_guardrail_due(check_guardrails, stage_id, blocked) ==
    check_guardrails /\ stage_given(stage_id) /\ ~blocked

\* lines 355-383: the output guardrail
OutputGuardrail(outcome) ==
    /\ turn.pc = "output_guardrail"
    /\ IF output_guardrail_due(turn.check_guardrails, turn.stage_id, turn.blocked)
       THEN /\ galileo_calls' = galileo_calls \o GuardrailCalls("output", outcome)
            /\ turn' = [turn EXCEPT !.pc = "conclude", !.output_guardrail = outcome,
                                    !.blocked = @ \/ ProtectResponse(outcome).blocked]
       ELSE /\ turn' = [turn EXCEPT !.pc = "conclude"]
            /\ UNCHANGED galileo_calls
    /\ UNCHANGED <<loggers, active_traces, turn_response>>
    /\ UNCHANGED <<orchVars, portalVars, agentVars, scriptVars>>

\* line 387: logger.conclude
Conclude(conclude_ok) ==
    /\ turn.pc = "conclude"
    /\ galileo_calls' = Append(galileo_calls, "conclude")
    /\ IF conclude_ok
       THEN turn' = [turn EXCEPT !.pc = "flush"] /\ UNCHANGED turn_response
       ELSE TurnRaises
    /\ UNCHANGED <<loggers, active_traces>>
    /\ UNCHANGED <<orchVars, portalVars, agentVars, scriptVars>>

\* the guardrail fields of ConversationTurnResponse
GuardrailField(outcome) ==
    IF outcome = "not_invoked" THEN "None" ELSE ProtectResponse(outcome).status

\* lines 388-399: logger.flush, the trace is no longer active, the answer
Flush(flush_ok) ==
    /\ turn.pc = "flush"
    /\ galileo_calls' = Append(galileo_calls, "flush")
    /\ IF flush_ok
       THEN /\ active_traces' = set_active_trace(active_traces, turn.session_id, FALSE)
            /\ turn' = [turn EXCEPT !.pc = "idle"]
            /\ turn_response' = [status |-> 200, success |-> TRUE, blocked |-> turn.blocked,
                                 input_guardrail |-> GuardrailField(turn.input_guardrail),
                                 output_guardrail |-> GuardrailField(turn.output_guardrail)]
       ELSE TurnRaises /\ UNCHANGED active_traces
    /\ UNCHANGED loggers
    /\ UNCHANGED <<orchVars, portalVars, agentVars, scriptVars>>

\* SessionManager.end_session
end_session(session_id) ==
    /\ turn.pc = "idle"
    /\ session_id \in loggers
    /\ loggers' = loggers \ {session_id}
    /\ active_traces' = [s \in DOMAIN active_traces \ {session_id} |-> active_traces[s]]
    /\ UNCHANGED <<turn, galileo_calls, turn_response>>
    /\ UNCHANGED <<orchVars, portalVars, agentVars, scriptVars>>

VoiceStartTrace ==
    \E session_id \in Sessions, check_guardrails \in BOOLEAN, stage_id \in StageIds,
       logger_ok \in BOOLEAN, trace_ok \in BOOLEAN :
        StartTrace(session_id, check_guardrails, stage_id, logger_ok, trace_ok)

VoiceInputGuardrail == \E outcome \in ProtectOutcomes : InputGuardrail(outcome)

VoiceAgentResponseSpan == \E span_ok \in BOOLEAN : AgentResponseSpan(span_ok)

VoiceOutputGuardrail == \E outcome \in ProtectOutcomes : OutputGuardrail(outcome)

VoiceConclude == \E conclude_ok \in BOOLEAN : Conclude(conclude_ok)

VoiceFlush == \E flush_ok \in BOOLEAN : Flush(flush_ok)

VoiceEndSession == \E session_id \in Sessions : end_session(session_id)

VoiceNext ==
    \/ VoiceStartTrace
    \/ VoiceInputGuardrail
    \/ VoiceAgentResponseSpan
    \/ VoiceOutputGuardrail
    \/ VoiceConclude
    \/ VoiceFlush
    \/ VoiceEndSession

(***************************************************************************)
(* pydantic-ai-support-agent/src/main.py: the tools of support_agent       *)
(***************************************************************************)
MaxTickets == 2

\* CUSTOMERS_DB: customer id -> tier
CUSTOMERS_DB ==
    [c \in {"C001", "C002", "C003"} |->
        [tier |-> CASE c = "C001" -> "enterprise" [] c = "C002" -> "premium"
                    [] OTHER -> "standard"]]

Order(customer_id, status) == [customer_id |-> customer_id, status |-> status]

\* the module as imported
AgentIdle ==
    /\ ORDERS_DB = [o \in {"ORD-1001", "ORD-1002", "ORD-1003"} |->
                       CASE o = "ORD-1001" -> Order("C001", "delivered")
                         [] o = "ORD-1002" -> Order("C001", "shipped")
                         [] OTHER -> Order("C002", "pending")]
    /\ TICKETS_DB = [t \in {} |-> 0]
    /\ TICKET_COUNTER = 1000
    /\ tool_result = [tool |-> "none", customer_id |-> "", order_id |-> "", text |-> ""]

\* what a tool was called with and the kind of text it returned
ToolResult(tool, customer_id, order_id, text) ==
    [tool |-> tool, customer_id |-> customer_id, order_id |-> order_id, text |-> text]

get_customer_info(customer_id) ==
    /\ tool_result' = ToolResult("get_customer_info", customer_id, "",
                                 IF customer_id \in DOMAIN CUSTOMERS_DB
                                 THEN "customer" ELSE "customer_not_found")
    /\ UNCHANGED <<ORDERS_DB, TICKETS_DB, TICKET_COUNTER>>
    /\ UNCHANGED <<orchVars, portalVars, voiceVars, scriptVars>>

\* (mutant) every customer has access to every order
owns_any(order, customer_id) == TRUE

\* order.customer_id != ctx.deps.customer_id
owns(order, customer_id) == order.customer_id = customer_id

get_order_status(customer_id, order_id) ==
    /\ tool_result' = ToolResult("get_order_status", customer_id, order_id,
                                 IF order_id \notin DOMAIN ORDERS_DB THEN "order_not_found"
                                 ELSE IF ~owns(ORDERS_DB[order_id], customer_id)
                                 THEN "no_access"
                                 ELSE ORDERS_DB[order_id].status)
    /\ UNCHANGED <<ORDERS_DB, TICKETS_DB, TICKET_COUNTER>>
    /\ UNCHANGED <<orchVars, portalVars, voiceVars, scriptVars>>

list_customer_orders(customer_id) ==
    /\ tool_result' = ToolResult("list_customer_orders", customer_id, "",
                                 IF \E o \in DOMAIN ORDERS_DB :
                                        ORDERS_DB[o].customer_id = customer_id
                                 THEN "orders" ELSE "no_orders")
    /\ UNCHANGED <<ORDERS_DB, TICKETS_DB, TICKET_COUNTER>>
    /\ UNCHANGED <<orchVars, portalVars, voiceVars, scriptVars>>

create_support_ticket(cap, customer_id, priority) ==
    LET boosted == IF customer_id \in DOMAIN CUSTOMERS_DB
                      /\ CUSTOMERS_DB[customer_id].tier = "enterprise"
                      /\ priority = "medium"
                   THEN "high" ELSE priority
        ticket_id == TICKET_COUNTER + 1
    IN  /\ TICKET_COUNTER < 1000 + cap
        /\ TICKET_COUNTER' = ticket_id
        /\ TICKETS_DB' = [t \in DOMAIN TICKETS_DB \cup {ticket_id} |->
                             IF t = ticket_id
                             THEN [customer_id |-> customer_id, priority |-> boosted,
                                   status |-> "open"]
                             ELSE TICKETS_DB[t]]
        /\ tool_result' = ToolResult("create_support_ticket", customer_id, "", boosted)
        /\ UNCHANGED ORDERS_DB
        /\ UNCHANGED <<orchVars, portalVars, voiceVars, scriptVars>>

process_refund(customer_id, order_id) ==
    LET answer(text) == tool_result' = ToolResult("process_refund", customer_id, order_id, text)
    IN  /\ IF order_id \notin DOMAIN ORDERS_DB
           THEN answer("order_not_found") /\ UNCHANGED ORDERS_DB
           ELSE IF ~owns(ORDERS_DB[order_id], customer_id)
           THEN answer("no_access") /\ UNCHANGED ORDERS_DB
           ELSE IF ORDERS_DB[order_id].status \notin {"delivered", "shipped"}
           THEN answer("cannot_refund") /\ UNCHANGED ORDERS_DB
           ELSE /\ ORDERS_DB' = [ORDERS_DB EXCEPT ![order_id].status = "refunded"]
                /\ answer("refund_processed")
        /\ UNCHANGED <<TICKETS_DB, TICKET_COUNTER>>
        /\ UNCHANGED <<orchVars, portalVars, voiceVars, scriptVars>>

\* the customers a run is made for and the order ids the model may pass
CustomerIds == {"C001", "C002", "C404"}
OrderIds == {"ORD-1001", "ORD-1002", "ORD-1003", "ORD-4040"}

SupportGetCustomerInfo == \E customer_id \in CustomerIds : get_customer_info(customer_id)

SupportGetOrderStatus ==
    \E customer_id \in CustomerIds, order_id \in OrderIds :
        get_order_status(customer_id, order_id)

SupportListOrders == \E customer_id \in CustomerIds : list_customer_orders(customer_id)

SupportCreateTicket ==
    \E customer_id \in {"C001", "C002"}, priority \in {"low", "medium"} :
        create_support_ticket(MaxTickets, customer_id, priority)

SupportProcessRefund ==
    \E customer_id \in CustomerIds, order_id \in OrderIds : process_refund(customer_id, order_id)

SupportNext ==
    \/ SupportGetCustomerInfo
    \/ SupportGetOrderStatus
    \/ SupportListOrders
    \/ SupportCreateTicket
    \/ SupportProcessRefund

(***************************************************************************)
(* Specifications                                                          *)
(***************************************************************************)
OrchStart == OrchInit /\ PortalIdle /\ VoiceIdle /\ AgentIdle /\ ScriptIdle
SpecOrch == OrchStart /\ [][OrchNext]_vars

MrnInit == PatientInit /\ OrchIdle /\ VoiceIdle /\ AgentIdle /\ ScriptIdle
SpecMrn == MrnInit /\ [][MrnNext]_vars

FactsInit == PatientInit /\ OrchIdle /\ VoiceIdle /\ AgentIdle /\ ScriptIdle
SpecPatientFacts == FactsInit /\ [][FactsNext]_vars

SearchInit == RagInit /\ OrchIdle /\ VoiceIdle /\ AgentIdle /\ ScriptIdle
SpecSearch == SearchInit /\ [][SearchNext]_vars

DocsInit == RagInit /\ OrchIdle /\ VoiceIdle /\ AgentIdle /\ ScriptIdle
SpecDocs == DocsInit /\ [][DocsNext]_vars

StaffInit == PatientInit /\ OrchIdle /\ VoiceIdle /\ AgentIdle /\ ScriptIdle
SpecStaff == StaffInit /\ [][StaffNext]_vars

SyncInit == PatientInit /\ OrchIdle /\ VoiceIdle /\ AgentIdle /\ ScriptIdle
SpecOsoSync == SyncInit /\ [][SyncNext]_vars

CommitInit == PatientInit /\ OrchIdle /\ VoiceIdle /\ AgentIdle /\ ScriptIdle
SpecCommit == CommitInit /\ [][CommitNext]_vars

IntakeInit == PatientInit /\ OrchIdle /\ VoiceIdle /\ AgentIdle /\ ScriptIdle
SpecIntake == IntakeInit /\ [][IntakeNext]_vars

RowsInit == PatientInit /\ OrchIdle /\ VoiceIdle /\ AgentIdle /\ ScriptIdle
SpecRows == RowsInit /\ [][RowsNext]_vars

GrantsInit == BootstrapInit /\ OrchIdle /\ VoiceIdle /\ AgentIdle /\ ScriptIdle
SpecGrants == GrantsInit /\ [][GrantsNext]_vars

SeedInit == EmptyDatabase /\ OrchIdle /\ VoiceIdle /\ AgentIdle /\ ScriptIdle
SpecSeed == SeedInit /\ [][SeedNext]_vars

RankInit == RagInit /\ OrchIdle /\ VoiceIdle /\ AgentIdle /\ ScriptIdle
SpecRank == RankInit /\ [][RankNext]_vars

ObserveInit == RagInit /\ OrchIdle /\ VoiceIdle /\ AgentIdle /\ ScriptIdle
SpecObserve == ObserveInit /\ [][ObserveNext]_vars

VoiceInit == VoiceIdle /\ PortalIdle /\ OrchIdle /\ AgentIdle /\ ScriptIdle
SpecVoice == VoiceInit /\ [][VoiceNext]_vars

SupportInit == AgentIdle /\ PortalIdle /\ OrchIdle /\ VoiceIdle /\ ScriptIdle
SpecSupport == SupportInit /\ [][SupportNext]_vars

WaitInit == EmptyDatabase /\ OrchIdle /\ VoiceIdle /\ AgentIdle /\ ScriptIdle
SpecWait == WaitInit /\ [][WaitNext]_vars

ChunkInit == PortalIdle /\ OrchIdle /\ VoiceIdle /\ AgentIdle /\ ScriptIdle
SpecChunk == ChunkInit /\ [][ChunkNext]_vars

FingerprintInit == PortalIdle /\ OrchIdle /\ VoiceIdle /\ AgentIdle /\ ScriptIdle
SpecFingerprint == FingerprintInit /\ [][FingerprintNext]_vars

(***************************************************************************)
(* Claims on MultiAgentOrchestrator (SpecOrch)                             *)
(***************************************************************************)
AgentCalls == SelectSeq(calls, LAMBDA c : c.kind = "agent")
SynthAt == {i \in DOMAIN calls : calls[i].kind = "synth"}
Routed == pc \notin {"off", "start"}
Finished == pc \in {"done", "raised", "raised_in_route"}
Requires(b) ==
    /\ HasKey(routing_decision, "requires_collaboration")
    /\ routing_decision.m["requires_collaboration"] = JBool(b)
CountCalls(n) == Cardinality({i \in DOMAIN calls : calls[i].kind = "agent" /\ calls[i].agent = n})
Occurrences(sq, n) == Cardinality({i \in DOMAIN sq : sq[i] = n})
MaxOf(S) == CHOOSE x \in S : \A y \in S : y <= x

\* C6: whenever the routing LLM's text is not JSON (cut short, wrapped in prose,
\* followed by more text, or empty) route_query returns exactly the fallback
\* decision and raises nothing; whenever the text is a JSON value it returns
\* the value the text denotes, unchanged.
C6_RouteQueryFallback ==
    Routed =>
        /\ pc # "raised_in_route"
        /\ sent.form # "json" => routing_decision = Fallback
        /\ sent.form = "json" => routing_decision = ValueOf(sent.d)

C6_Witness ==
    /\ pc = "routed"
    /\ sent.form = "truncated"
    /\ sent.d.primary = "financial"
    /\ routing_decision = Fallback

\* C7: with requires_collaboration false exactly one agent, primary_agent, is
\* invoked, once, with the user query alone, and no synthesis call is made;
\* with requires_collaboration true the agents run in execution_order order,
\* each agent after the first gets the conversation so far and a context
\* message holding, for every agent that ran before it, that agent's (latest)
\* result, and the synthesis call is the last call, made after every entry of
\* execution_order has run.
C7_ProcessQueryOrder ==
    /\ Requires(FALSE) =>
          /\ SynthAt = {}
          /\ Len(AgentCalls) <= 1
          /\ pc = "done" =>
                /\ Len(AgentCalls) = 1
                /\ JStr(AgentCalls[1].agent) = routing_decision.m["primary_agent"]
                /\ AgentCalls[1].msgs.hist = <<>>
                /\ ~AgentCalls[1].msgs.hasCtx
                /\ output = [kind |-> "agent", rid |-> Len(calls)]
    /\ Requires(TRUE) =>
          /\ \A k \in DOMAIN AgentCalls :
                LET c == AgentCalls[k]
                    before == {AgentCalls[j].agent : j \in 1..(k - 1)}
                IN  /\ JStr(c.agent) = ExecutionOrder[k]
                    /\ c.msgs.hist = [j \in 1..(k - 1) |-> j + 1]
                    /\ c.msgs.hasCtx = (k > 1)
                    /\ c.msgs.ctx.results =
                         {<<n, 1 + MaxOf({j \in 1..(k - 1) : AgentCalls[j].agent = n})>> :
                            n \in before}
          /\ \A i \in SynthAt :
                /\ i = Len(calls)
                /\ Len(AgentCalls) = Len(ExecutionOrder)
                /\ calls[i].msgs.ctx.results = results
          /\ pc = "done" => SynthAt # {} /\ output.kind = "synthesis"

C7_Witness ==
    /\ pc = "done"
    /\ Requires(TRUE)
    /\ Len(AgentCalls) = 2
    /\ AgentCalls[2].msgs.hasCtx
    /\ SynthAt = {4}

\* C8 as stated: no validation, no retry: an agent is invoked exactly once per
\* occurrence of its name in execution_order, only the two agents are ever
\* invoked, and a parsed decision that names any other agent or lacks one of
\* the four keys makes process_query raise.
C8_Original ==
    /\ \A i \in DOMAIN AgentCalls : AgentCalls[i].agent \in Agents
    /\ (pc = "done" /\ HasKey(routing_decision, "execution_order")) =>
          \A n \in Agents :
             CountCalls(n) = Occurrences(ExecutionOrder, JStr(n))
    /\ (sent.form = "json" /\ Finished) =>
          LET d == sent.d
              namesOther == \/ d.primary \notin Agents \cup {"absent"}
                            \/ d.hasOrder /\ \E i \in DOMAIN d.order : d.order[i] \notin Agents
              lacksKey == \/ d.primary = "absent"
                          \/ d.requires = "absent"
                          \/ ~d.hasOrder
                          \/ ~d.hasSecondary
          IN  (namesOther \/ lacksKey) => pc = "raised"

\* The keys and names the path taken reads, from the decision the LLM meant
C8_PathBroken(d) ==
    \/ d.requires = "absent"
    \/ /\ d.requires \in {"true", "yes"}
       /\ \/ ~d.hasOrder
          \/ \E i \in DOMAIN d.order : d.order[i] \notin Agents
    \/ /\ d.requires = "false"
       /\ d.primary \notin Agents

\* C8 (amended): no validation, no retry: only the two agents are ever invoked;
\* on the collaborative path an agent is invoked once per occurrence of its
\* name in execution_order, on the single-agent path primary_agent is invoked
\* once whatever execution_order holds; a parsed decision makes process_query
\* raise (it never falls back to supply_chain) exactly when the path taken
\* reads a missing key or selects a name outside the two agents.
C8_NoValidation ==
    /\ \A i \in DOMAIN AgentCalls : AgentCalls[i].agent \in Agents
    /\ (pc = "done" /\ Truthy(routing_decision.m["requires_collaboration"])) =>
          \A n \in Agents : CountCalls(n) = Occurrences(ExecutionOrder, JStr(n))
    /\ (pc = "done" /\ ~Truthy(routing_decision.m["requires_collaboration"])) =>
          \A n \in Agents :
             CountCalls(n) = IF JStr(n) = routing_decision.m["primary_agent"] THEN 1 ELSE 0
    /\ (sent.form = "json" /\ Finished) =>
          /\ pc = "raised" <=> C8_PathBroken(sent.d)
          /\ routing_decision = ValueOf(sent.d)
          /\ pc = "raised" => output = NoOutput

C8_Witness ==
    /\ pc = "raised"
    /\ sent.form = "json"
    /\ sent.d.requires = "true"
    /\ sent.d.order = <<"financial", "marketing">>
    /\ Len(AgentCalls) = 1

(***************************************************************************)
(* Claims on the patient service                                           *)
(***************************************************************************)
HoldersOf(role, rtype, rid) ==
    {f.user : f \in {g \in facts : g.role = role /\ g.rtype = rtype /\ g.rid = rid}}

\* C4 as stated (SpecPatientFacts, where no fact write fails): after any
\* sequence of create_patient, update_patient and delete_patient the facts of
\* every active patient match its row: the only assigned_doctor fact names the
\* current assigned_doctor_id, and the department_nurse facts name exactly the
\* active nurses of the patient's current department.
C4_Original ==
    ~oso_failed =>
        \A p \in DOMAIN patients :
            patients[p].is_active =>
                /\ HoldersOf("assigned_doctor", "Patient", p) =
                     (IF patients[p].assigned_doctor_id = NoDoctor THEN {}
                      ELSE {patients[p].assigned_doctor_id})
                /\ HoldersOf("department_nurse", "Patient", p) =
                     {u \in DOMAIN users : /\ users[u].is_active
                                           /\ users[u].role = "nurse"
                                           /\ users[u].department = patients[p].department}

\* C9 (SpecMrn): no two patient rows, active or deactivated, share a medical
\* record number; a create_patient whose number is held by a row, and an
\* update_patient of an existing patient by an authorised caller whose new
\* number is held by another row, are answered 400 and change no row.
C9_UniqueMrn ==
    /\ [](\A p, q \in DOMAIN patients :
            p # q => patients[p].medical_record_number # patients[q].medical_record_number)
    /\ [][LET r == resp'
              held(others) == \E q \in others : patients[q].medical_record_number = r.mrn
          IN  /\ (r.op = "create_patient" /\ held(DOMAIN patients)) =>
                    (r.status = 400 /\ patients' = patients)
              /\ (/\ r.op = "update_patient"
                  /\ r.id \in DOMAIN patients
                  /\ r.authz = "allow"
                  /\ held(DOMAIN patients \ {r.id})) =>
                    (r.status = 400 /\ patients' = patients)
              /\ r.status \in {400, 403, 404, 500} => patients' = patients]_vars

C9_Witness ==
    /\ resp.op = "update_patient"
    /\ resp.status = 400
    /\ resp.detail = "mrn_exists"
    /\ \E q \in DOMAIN patients :
          /\ ~patients[q].is_active
          /\ patients[q].medical_record_number = resp.mrn

(***************************************************************************)
(* Claims on the rag service                                               *)
(***************************************************************************)
\* what the fallback of the handlers lets a user read
FallbackReadable(caller, d) ==
    users[caller].role = "admin" \/ users[caller].department = d.department

\* C1 as stated (SpecSearch): get_document answers a request for an existing
\* document with the document when the policy service authorizes the user
\* or, when the policy call fails, when the user is an admin or of the
\* document's department; every other request is answered 403 without a body.
C1_Original ==
    (resp.op = "get_document" /\ DocumentById(resp.id) # {}) =>
        LET d == CHOOSE x \in DocumentById(resp.id) : TRUE
            permitted == \/ resp.authz = "allow"
                         \/ resp.authz = "error" /\ FallbackReadable(resp.caller, d)
        IN  IF permitted THEN resp.status = 200 /\ resp.body
            ELSE resp.status = 403 /\ ~resp.body

\* the documents a search may draw on: readable by the caller (by the policy
\* answer, or by role and department when the policy call failed) and
\* matching the filters of the request
SearchableDocuments ==
    {d \in documents :
        /\ IF resp.request.policy.error THEN FallbackReadable(resp.caller, d)
           ELSE d.id \in resp.request.policy.ids
        /\ resp.request.department # "" => d.department = resp.request.department
        /\ (resp.op = "search_documents" /\ resp.request.document_types # {})
              => d.document_type \in resp.request.document_types
        /\ (resp.op = "ask_question" /\ resp.request.patient_id # NoPatient)
              => d.patient_id = resp.request.patient_id}

\* C2 (SpecSearch): every chunk search_documents returns as a result and
\* ask_question as a source belongs to a document the caller is authorized to
\* read that matches the filters of the request; when there is no such
\* document no similarity search runs and no chunk is returned.
C2_SearchWithinAuthorized ==
    resp.op \in {"search_documents", "ask_question"} =>
        /\ \A i \in DOMAIN resp.results :
              \E d \in SearchableDocuments : d.id = resp.results[i].document_id
        /\ SearchableDocuments = {} => (~resp.searched /\ resp.results = <<>>)

\* a search returned chunks while a chunk of a document outside the
\* searchable ones was as close to the query
C2_Witness ==
    /\ resp.op \in {"search_documents", "ask_question"}
    /\ resp.results # <<>>
    /\ \E e \in embeddings :
          /\ e.document_id \notin {d.id : d \in SearchableDocuments}
          /\ CosineSimilarity(resp.request.query, e.embedding_vector) > similarity_threshold

\* C3 as stated (SpecSearch): similarity_search returns no row whose
\* document_id is outside the allowlist it was given, for every allowlist;
\* an empty allowlist yields no rows.
C3_Original ==
    (resp.op = "similarity_search" /\ ~resp.request.document_ids.none) =>
        \A i \in DOMAIN resp.results :
            resp.results[i].document_id \in resp.request.document_ids.ids

\* C10 (SpecDocs): after any sequence of create_document, upload_document,
\* regenerate_embeddings and delete_document every embedding row's
\* document_id is the id of a document row.
C10_NoOrphanEmbedding ==
    \A e \in embeddings : \E d \in documents : d.id = e.document_id

\* delete_document was refused for a document that has embeddings
C10_Witness ==
    /\ resp.op = "delete_document"
    /\ resp.status = 500
    /\ DocumentById(resp.id) # {}
    /\ EmbeddingsOfDocument(resp.id) # {}

(***************************************************************************)
(* Claims on staff changes                                                 *)
(***************************************************************************)
\* C5 as stated (SpecStaff, where no fact write fails): after update_user
\* changed a user's role or department, or update_patient a patient's
\* doctor, the department_staff facts of every non-sensitive document name
\* exactly the active users of the document's department, and the
\* patient_doctor fact of a document of a patient names the patient's
\* assigned doctor.
C5_Original ==
    (~oso_failed /\ resp.op \in {"update_user", "update_patient"} /\ resp.status = 200) =>
        \A d \in documents :
            /\ (~d.is_sensitive /\ d.department # "") =>
                  HoldersOf("department_staff", "Document", d.id) = ActiveIn(users, d.department)
            /\ d.patient_id # NoPatient =>
                  HoldersOf("patient_doctor", "Document", d.id) =
                     (IF d.patient_id \in DOMAIN patients
                         /\ patients[d.patient_id].assigned_doctor_id # NoDoctor
                      THEN {patients[d.patient_id].assigned_doctor_id} ELSE {})

(***************************************************************************)
(* Claims on fact synchronization                                          *)
(***************************************************************************)
OsoSyncFunctions ==
    {"sync_admin_global_access", "remove_admin_global_access", "sync_patient_access",
     "remove_patient_access", "sync_document_access", "remove_document_access",
     "sync_embedding_access", "remove_embedding_access", "sync_user_role_change",
     "sync_department_change", "full_resync"}

\* C11 as stated (SpecOsoSync): every function of oso_sync returns False
\* whenever a policy-service call made during its execution failed, so that
\* True is returned only when every fact write it attempted succeeded.
C11_Original ==
    (resp.op \in OsoSyncFunctions /\ resp.failed) => ~resp.ret

\* the operations that synchronize facts after their commit
CommitThenSync ==
    {"create_patient", "update_patient", "delete_patient", "create_user", "update_user"}

C13_SoftDelete ==
    /\ [][/\ Len(users') >= Len(users)
          /\ Len(patients') >= Len(patients)]_vars
    /\ [][(resp'.op = "delete_patient" /\ resp'.status = 200) =>
             /\ DOMAIN patients' = DOMAIN patients
             /\ ~patients'[resp'.id].is_active
             /\ \A p \in DOMAIN patients :
                   /\ patients'[p].medical_record_number = patients[p].medical_record_number
                   /\ patients'[p].department = patients[p].department
                   /\ patients'[p].assigned_doctor_id = patients[p].assigned_doctor_id
                   /\ p # resp'.id => patients'[p].is_active = patients[p].is_active
             /\ users' = users
             /\ documents' = documents
             /\ embeddings' = embeddings]_vars
    /\ [][(resp'.op = "get_patient" /\ resp'.id \in DOMAIN patients) =>
             /\ resp'.status # 404
             /\ resp'.authz = "allow" =>
                   /\ resp'.status = 200
                   /\ resp'.mrn = patients[resp'.id].medical_record_number]_vars

\* a deactivated patient was retrieved under its id
C13_Witness ==
    /\ resp.op = "get_patient"
    /\ resp.status = 200
    /\ ~patients[resp.id].is_active
    /\ patients[resp.id].assigned_doctor_id # NoDoctor

(***************************************************************************)
(* Claims on regenerated embeddings                                        *)
(***************************************************************************)
\* C14 as stated (SpecDocs): when regenerate_document_embeddings returns
\* success with chunks_created = n, the document has exactly n embedding
\* rows, one per chunk with chunk_index 0 .. n-1, and none of the rows it had
\* before the call remains.
C14_Original ==
    [][(resp'.op = "regenerate_embeddings" /\ resp'.status = 200 /\ resp'.success) =>
           LET rows == {e \in embeddings' : e.document_id = resp'.id}
           IN  /\ Cardinality(rows) = resp'.chunks_created
               /\ {e.chunk_index : e \in rows} = 0 .. (resp'.chunks_created - 1)
               /\ rows \cap embeddings = {}]_vars

(***************************************************************************)
(* Claims on the admins' facts                                             *)
(***************************************************************************)
\* C15 as stated (SpecGrants, where no call fails): after any sequence of
\* user, patient, document and embedding creations through the services,
\* every active admin holds an 'admin' fact on every active patient, every
\* document, every embedding and every active user.
C15_Original ==
    \A a \in ActiveAdmins(users) :
        /\ \A p \in ActivePatients(patients) : Fact(a, "admin", "Patient", p) \in facts
        /\ \A d \in documents : Fact(a, "admin", "Document", d.id) \in facts
        /\ \A e \in embeddings : Fact(a, "admin", "Embedding", e.id) \in facts
        /\ \A u \in DOMAIN users :
              users[u].is_active => Fact(a, "admin", "User", u) \in facts

(***************************************************************************)
(* Claims on seeding                                                       *)
(***************************************************************************)
\* C16 as stated (SpecSeed): seeding is idempotent: a run that follows a run
\* which completed without a failed call creates no additional user, patient
\* or document row.
C16_Original ==
    [][(resp.op = "seed_main" /\ resp.completed /\ resp.errors = 0
        /\ resp'.op = "seed_main") =>
           /\ Len(users') = Len(users)
           /\ Len(patients') = Len(patients)
           /\ Cardinality(documents') = Cardinality(documents)]_vars

(***************************************************************************)
(* Claims on similarity_search (SpecRank)                                  *)
(***************************************************************************)
\* the rows of the join whose similarity to the query is above the threshold
Qualifying ==
    {e \in embeddings :
        CosineSimilarity(resp.query_embedding, e.embedding_vector) > resp.similarity_threshold}

\* C17: similarity_search returns at most limit rows (limit >= 0), each with
\* a similarity strictly above the threshold, ordered by non-increasing
\* similarity; it returns the empty list when the query embedding cannot be
\* produced and when the database query fails.
C17_SimilaritySearch ==
    resp.op = "similarity_search" =>
        /\ resp.limit >= 0 => Len(resp.results) <= resp.limit
        /\ \A i \in DOMAIN resp.results :
              resp.results[i].similarity > resp.similarity_threshold
        /\ \A i, j \in DOMAIN resp.results :
              i < j => resp.results[i].similarity >= resp.results[j].similarity
        /\ (resp.query_embedding = NoVector \/ ~resp.db_ok \/ resp.limit < 0)
              => resp.results = <<>>

\* more rows qualify than were asked for, a row's similarity equals the
\* threshold, and the rows returned differ in similarity
C17_Witness ==
    /\ resp.op = "similarity_search"
    /\ resp.limit = 2
    /\ Len(resp.results) = 2
    /\ Cardinality(Qualifying) > 2
    /\ resp.results[1].similarity > resp.results[2].similarity
    /\ \E e \in embeddings :
          CosineSimilarity(resp.query_embedding, e.embedding_vector)
              = resp.similarity_threshold

(***************************************************************************)
(* Claims on Galileo logging (SpecObserve)                                 *)
(***************************************************************************)
\* the result lists the handler's search can return when nothing is logged
UnloggedResults ==
    IF resp.searched
    THEN similarity_search(resp.request.query, LimitOr(resp.request.limit),
                           similarity_threshold, ListIds(resp.authorized_doc_ids), TRUE)
    ELSE {<<>>}

\* C18: a failure of a Galileo logging call (log_retriever_call,
\* log_llm_call, log_galileo_event) never changes what similarity_search,
\* generate_ai_response, or the chat and document endpoints return: each
\* returns what it returns when nothing is logged.
C18_LoggingFailureUnseen ==
    /\ resp.op = "similarity_search" =>
          resp.results \in similarity_search(resp.query_embedding, resp.limit,
                                             resp.similarity_threshold, NoneIds, resp.db_ok)
    /\ resp.op = "search_documents" =>
          resp.status = 200 /\ resp.results \in UnloggedResults
    /\ resp.op = "ask_question" =>
          /\ resp.status = 200
          /\ resp.results \in UnloggedResults
          /\ resp.response = generate_ai_response(resp.openai_ok, resp.results # <<>>,
                                                  "disabled")
    /\ resp.op = "create_document" =>
          resp.status = 200 /\ DocumentById(resp.id) # {}

\* a question was answered from retrieved chunks while every Galileo call
\* failed
C18_Witness ==
    /\ resp.op = "ask_question"
    /\ resp.galileo = "raises"
    /\ resp.openai_ok
    /\ resp.results # <<>>

(***************************************************************************)
(* Claims on log_conversation_turn (SpecVoice)                             *)
(***************************************************************************)
\* the place of a call in the order of a turn; the conclude of a trace the
\* previous turn left open comes before the turn's own steps
StepRank(call) ==
    CASE call = "conclude_previous" -> 0
      [] call = "start_trace" -> 1
      [] call \in {"invoke_protect_input", "add_protect_span_input"} -> 2
      [] call = "add_llm_span" -> 3
      [] call \in {"invoke_protect_output", "add_protect_span_output"} -> 4
      [] call = "conclude" -> 5
      [] OTHER -> 6

Called(call) == \E i \in DOMAIN galileo_calls : galileo_calls[i] = call

\* C19: in log_conversation_turn the steps of a turn happen in the order
\* start trace, input guardrail check, agent-response LLM span, output
\* guardrail check, conclude, flush; the output guardrail is invoked only
\* when guardrails are requested, a stage_id is given and the input was not
\* blocked; and the turn's blocked result is true if and only if one of the
\* guardrails invoked for that turn triggered.
C19_TurnOrder ==
    /\ \A i, j \in DOMAIN galileo_calls :
          i < j => /\ StepRank(galileo_calls[i]) <= StepRank(galileo_calls[j])
                   /\ galileo_calls[i] # galileo_calls[j]
    /\ turn_response.success =>
          /\ Called("start_trace") /\ Called("add_llm_span")
          /\ Called("conclude") /\ Called("flush")
          /\ Called("invoke_protect_input")
                <=> (turn.check_guardrails /\ turn.stage_id \notin {"None", ""})
    /\ Called("invoke_protect_output") =>
          /\ turn.check_guardrails
          /\ turn.stage_id \notin {"None", ""}
          /\ turn.input_guardrail # "triggered"
    /\ turn_response.success =>
          (turn_response.blocked
              <=> \/ Called("invoke_protect_input") /\ turn.input_guardrail = "triggered"
                  \/ Called("invoke_protect_output") /\ turn.output_guardrail = "triggered")

\* a turn went through all six steps and its output guardrail triggered
C19_Witness ==
    /\ turn_response.success
    /\ turn_response.blocked
    /\ Called("invoke_protect_input")
    /\ Called("invoke_protect_output")
    /\ turn.output_guardrail = "triggered"
    /\ Called("flush")

(***************************************************************************)
(* Claims on the support agent's tools (SpecSupport)                       *)
(***************************************************************************)
\* C20: process_refund changes an order's status only when the order
\* exists, belongs to the calling customer and has status delivered or
\* shipped, and then sets it to refunded; an order is refunded at most once
\* (a refunded order stays refunded and no refund is processed for it
\* again), and no other tool ever changes an order's status.
C20_RefundOnly ==
    [][/\ DOMAIN ORDERS_DB' = DOMAIN ORDERS_DB
       /\ \A o \in DOMAIN ORDERS_DB :
             /\ ORDERS_DB'[o].status # ORDERS_DB[o].status =>
                   /\ tool_result'.tool = "process_refund"
                   /\ tool_result'.order_id = o
                   /\ ORDERS_DB[o].customer_id = tool_result'.customer_id
                   /\ ORDERS_DB[o].status \in {"delivered", "shipped"}
                   /\ ORDERS_DB'[o].status = "refunded"
             /\ (tool_result'.text = "refund_processed" /\ tool_result'.order_id = o) =>
                   ORDERS_DB[o].status # "refunded"
             /\ ORDERS_DB[o].status = "refunded" => ORDERS_DB'[o].status = "refunded"]_vars

\* a second refund of a refunded order was asked for by its owner and refused
C20_Witness ==
    /\ tool_result.tool = "process_refund"
    /\ tool_result.text = "cannot_refund"
    /\ tool_result.order_id \in DOMAIN ORDERS_DB
    /\ ORDERS_DB[tool_result.order_id].status = "refunded"
    /\ ORDERS_DB[tool_result.order_id].customer_id = tool_result.customer_id

\* C21 as stated (SpecDocs, where the policy service is always available):
\* after delete_document succeeds the policy store holds no has_role fact
\* whose resource is the deleted document.
C21_Original ==
    (resp.op = "delete_document" /\ resp.status = 200 /\ ~oso_failed)
        => ~(\E f \in facts : f.rtype = "Document" /\ f.rid = resp.id)

\* C22 as stated (SpecIntake): create_patient called by a user whose role is
\* neither doctor nor admin is always answered with 403, whatever the request
\* body, and creates no patient row.
C22_Original ==
    [][\A caller \in OtherStaff, mrn \in Mrns, dept \in Depts, doctor \in Assignees,
          dob_ok \in BOOLEAN, oso_up \in {TRUE} :
          create_patient(MaxPatients, caller, mrn, dept, doctor, dob_ok, oso_up)
              => (resp'.status = 403 /\ patients' = patients)]_vars

\* C22 (amended): create_patient called by a user whose role is neither
\* doctor nor admin never creates a patient row and writes no fact; it is
\* answered with 400 when the medical record number already exists or the
\* date of birth does not parse (both are checked before the role), and with
\* 403 otherwise, whatever the rest of the request body.
C22_NoRowWithoutRole ==
    [][\A caller \in OtherStaff, mrn \in Mrns, dept \in Depts, doctor \in Assignees,
          dob_ok \in BOOLEAN, oso_up \in {TRUE} :
          create_patient(MaxPatients, caller, mrn, dept, doctor, dob_ok, oso_up)
              => /\ patients' = patients
                 /\ facts' = facts
                 /\ resp'.op = "create_patient"
                 /\ resp'.status = IF mrn_exists(patients, mrn) \/ ~dob_ok THEN 400 ELSE 403]_vars

\* a nurse was refused for the role while patient rows exist
C22_Witness ==
    /\ resp.op = "create_patient"
    /\ resp.status = 403
    /\ resp.detail = "role"
    /\ Len(patients) >= 1
    /\ ~mrn_exists(patients, resp.mrn)

\* C23 as stated (SpecWait): wait_for_services returns True only if each of
\* the three services answered a /health request with status 200 within its
\* 30 attempts; otherwise it returns False, and seeding does not proceed.
C23_Original ==
    /\ (wait.pc = "returned" /\ wait.ret) => wait.answered = DOMAIN services
    /\ (wait.pc = "returned" /\ wait.answered # DOMAIN services) => ~wait.ret
    /\ (resp.op = "seed_main" /\ resp.completed) => wait.answered = DOMAIN services

\* the positions of the text a chunk holds
Held(chunk) == chunk.from .. chunk.to - 1

\* chunks of at most size tokens that cover the n tokens of a text in order,
\* consecutive ones sharing exactly overlap tokens; none for an empty text
Chunked(chunks, n, size, overlap) ==
    /\ \A i \in DOMAIN chunks : Cardinality(Held(chunks[i])) <= size
    /\ UNION {Held(chunks[i]) : i \in DOMAIN chunks} = 0 .. n - 1
    /\ \A i \in 1 .. Len(chunks) - 1 :
          /\ chunks[i].from <= chunks[i + 1].from
          /\ Cardinality(Held(chunks[i]) \cap Held(chunks[i + 1])) = overlap
    /\ n = 0 => chunks = <<>>

\* C24 as stated (SpecChunk): for chunk_overlap < chunk_size the chunks that
\* chunk_text returns each hold at most chunk_size tokens, together cover
\* every token of the text in order, and every two consecutive chunks share
\* exactly chunk_overlap tokens; an empty text yields no chunk.
C24_Original ==
    (resp.op = "chunk_text" /\ resp.chunk_overlap < resp.chunk_size)
        => Chunked(resp.chunks, Len(resp.text), resp.chunk_size, resp.chunk_overlap)

\* C24 (amended): for 0 <= chunk_overlap < chunk_size the token windows that
\* chunk_text cuts each hold at most chunk_size tokens, together cover every
\* token of the text in order, and every two consecutive windows share
\* exactly chunk_overlap tokens; an empty text yields no chunk. Each returned
\* chunk is its window decoded and stripped: it holds the window's tokens
\* except the whitespace tokens at the window's two ends.
C24_Windows ==
    (resp.op = "chunk_text" /\ 0 <= resp.chunk_overlap /\ resp.chunk_overlap < resp.chunk_size)
        => /\ Chunked(resp.windows, Len(resp.text), resp.chunk_size, resp.chunk_overlap)
           /\ Len(resp.chunks) = Len(resp.windows)
           /\ \A i \in DOMAIN resp.chunks :
                 LET kept == Held(resp.chunks[i])
                     window == Held(resp.windows[i])
                 IN  /\ kept \subseteq window
                     /\ \A p \in window \ kept : resp.text[p + 1] = " "
                     /\ \A p \in kept :
                           (p - 1 \notin kept \/ p + 1 \notin kept) => resp.text[p + 1] # " "

\* a text cut into overlapping windows, of which one lost whitespace at an
\* end and another was kept whole
C24_Witness ==
    /\ resp.op = "chunk_text"
    /\ resp.chunk_overlap > 0
    /\ Len(resp.windows) >= 3
    /\ \E i \in DOMAIN resp.chunks : Held(resp.chunks[i]) # Held(resp.windows[i])
    /\ \E i \in DOMAIN resp.chunks : Held(resp.chunks[i]) = Held(resp.windows[i])

\* C25 as stated (SpecFingerprint): get_hash terminates for every function,
\* including when the global functions it references call themselves or
\* each other recursively: the cache prevents infinite recursion, so the
\* stack of _get_deep_hash never reaches the interpreter's limit.
C25_Original == hash_result # "RecursionError"

====
